---------------------------- MODULE Spec2Model ----------------------------
(***************************************************************************)
(* Lane's Balance (docs/js/balance.js): the balance ratio, the regime      *)
(* classification, the tilt angle, the channel pattern and the list of     *)
(* active processes.                                                       *)
(*                                                                         *)
(* JavaScript numbers are modelled as decimal fixed-point integers:        *)
(*   - the mapped quantities, the two terms of the ratio and the braiding  *)
(*     index at TermScale (5 decimals; mapSlope and the index are exact),  *)
(*   - the ratio, the stream power and the tilt angle at RatioScale        *)
(*     (4 decimals),                                                       *)
(*   - logarithms (and exponents) at LogScale (6 decimals).                *)
(* Infinity is the value Infinity below, larger than every finite value.   *)
(***************************************************************************)
EXTENDS Integers, Sequences, FiniteSets, TLC

TermScale  == 10^5
RatioScale == 10^4
LogScale   == 10^6
\* LogScale = LogBase^2: the two-limb products below split at LogBase
LogBase    == 10^3
\* Number.POSITIVE_INFINITY: above every finite value of the model.
Infinity   == 2147483647
MaxInt     == Infinity

Max(a, b) == IF a >= b THEN a ELSE b
Min(a, b) == IF a <= b THEN a ELSE b
Abs(a)    == IF a < 0 THEN -a ELSE a

(***************************************************************************)
(* floor(a*b/m) for a, b >= 0 and 0 < m < 6.9*10^7, without leaving 32     *)
(* bits: long multiplication by the base-16 digits of b, carrying quotient *)
(* and remainder.                                                          *)
(***************************************************************************)
RECURSIVE MulDivQR(_, _, _)
MulDivQR(a, b, m) ==
    IF b = 0 THEN <<0, 0>>
    ELSE LET h  == MulDivQR(a, b \div 16, m)
             d  == b % 16
             r2 == 16 * h[2] + d * (a % m)
             q2 == 16 * h[1] + d * (a \div m)
         IN  <<q2 + (r2 \div m), r2 % m>>

MulDiv(a, b, m) ==
    IF a = 0 \/ b = 0 THEN 0
    ELSE IF a <= MaxInt \div b THEN (a * b) \div m
    ELSE MulDivQR(a, b, m)[1]

\* round(a*b/m), a of either sign, b >= 0
MulDivRound(a, b, m) ==
    LET q == MulDivQR(Abs(a), b, m)
        n == q[1] + (IF 2 * q[2] >= m THEN 1 ELSE 0)
    IN  IF a < 0 THEN -n ELSE n

\* floor(a*b/LogScale) for a, b >= 0: the product of two numbers at
\* LogScale, by their limbs at LogBase
MulLog(a, b) ==
    LET a1 == a \div LogBase
        a0 == a % LogBase
        b1 == b \div LogBase
        b0 == b % LogBase
    IN  a1 * b1 + (a1 * b0 + a0 * b1 + (a0 * b0) \div LogBase) \div LogBase

(***************************************************************************)
(* Math.log10 of x > 0 given at RatioScale, result at LogScale.            *)
(* Characteristic from the decimal digits, mantissa bits by repeated       *)
(* squaring.                                                               *)
(***************************************************************************)
RECURSIVE NumDigits(_)
NumDigits(n) == IF n < 10 THEN 1 ELSE 1 + NumDigits(n \div 10)

LogBits == 20

\* y in [LogScale, 10*LogScale); the first k bits of log10(y/LogScale)
RECURSIVE Log10Mantissa(_, _)
Log10Mantissa(y, k) ==
    IF k = 0 THEN 0
    ELSE LET sq  == MulLog(y, y)
             bit == IF sq >= 10 * LogScale THEN 1 ELSE 0
             nxt == IF bit = 1 THEN sq \div 10 ELSE sq
         IN  bit * 2^(k - 1) + Log10Mantissa(nxt, k - 1)

Log10(x) ==
    IF x = Infinity THEN Infinity
    ELSE LET d    == NumDigits(x)
             \* x = mant * 10^(d-1) / RatioScale with mant in [1, 10)
             mant == IF d <= 7 THEN x * 10^(7 - d) ELSE x \div 10^(d - 7)
             char == d - 5
             bits == Log10Mantissa(mant, LogBits)
         IN  char * LogScale + MulDivRound(bits, LogScale, 2^LogBits)

\* ln 10 at LogScale
Ln10 == 2302585

\* Math.log of x > 0 given at RatioScale, result at LogScale
Ln(x) ==
    IF x = Infinity THEN Infinity
    ELSE LET l == Log10(x)
             p == MulLog(Abs(l), 2 * Ln10)
             n == (p + 1) \div 2
         IN  IF l < 0 THEN -n ELSE n

(***************************************************************************)
(* Math.pow(10, e), e at LogScale, result at TermScale: 10^floor(e) times  *)
(* exp(frac(e) * ln 10), the exponential by its Taylor series.             *)
(***************************************************************************)
ExpTerms == 30

\* t*x/k + t*x^2/(k(k+1)) + ... , x at LogScale
RECURSIVE ExpSeries(_, _, _)
ExpSeries(t, x, k) ==
    IF k > ExpTerms \/ t = 0 THEN 0
    ELSE LET nxt == MulLog(t, x) \div k
         IN  nxt + ExpSeries(nxt, x, k + 1)

Pow10(e) ==
    LET n    == e \div LogScale
        f    == e - n * LogScale
        x    == MulLog(f, Ln10)
        \* mantissa 10^f in [1, 10) at 100 * LogScale
        m    == 100 * LogScale + ExpSeries(100 * LogScale, x, 1)
        \* to TermScale: m / 10^8 * 10^n * 10^5
        down == 10^(3 - n)
    IN  (m + down \div 2) \div down

\* the decimal literal n/d at the given scale
Dec(n, d, scale) == (n * scale) \div d

\* a / b rounded to nearest, a >= 0 and b > 0 at one scale, result at RatioScale
Quotient(a, b) == MulDivRound(a, RatioScale, b)

(***************************************************************************)
(* const Balance = { ... }                                                 *)
(***************************************************************************)

\* mapD50 over four decades instead of three: 10^(-1 + 4 (value-1)/99)
mapD50_FourDecades(value) ==
    LET ratio    == MulDivRound(value - 1, LogScale, 99)
        logValue == -LogScale + 4 * ratio
    IN  Pow10(logValue)

\* mapD50(value): 10^(-1 + 3 (value-1)/99), at TermScale
mapD50(value) ==
    LET ratio    == MulDivRound(value - 1, LogScale, 99)
        logValue == -LogScale + 3 * ratio
    IN  Pow10(logValue)

\* mapSlope with the range of its comment ("0.1 to 10"): 0.1 + (value/100) * 9.9
mapSlope_Range10(value) ==
    Dec(1, 10, TermScale) + (Dec(value, 100, TermScale) * 9900) \div 1000

\* mapSlope(value): 0.1 + (value / 100) * 5.906, at TermScale (exact)
mapSlope(value) ==
    Dec(1, 10, TermScale) + (Dec(value, 100, TermScale) * 5906) \div 1000

\* calculateRatio with the quotient inverted: waterTerm / sedimentTerm (both
\* terms cut to 3 decimals, which keeps the divisor in MulDivQR's range)
calculateRatio_Inverted(qs, d50, qw, s) ==
    LET sedimentTerm == qs * mapD50(d50)
        waterTerm    == qw * mapSlope(s)
    IN  IF sedimentTerm = 0 THEN Infinity
        ELSE MulDivRound(waterTerm \div 100, RatioScale, Max(1, sedimentTerm \div 100))

\* calculateRatio with a zero water term answered by 0
calculateRatio_ZeroGuard(qs, d50, qw, s) ==
    LET sedimentTerm == qs * mapD50(d50)
        waterTerm    == qw * mapSlope(s)
    IN  IF waterTerm = 0 THEN 0
        ELSE Quotient(sedimentTerm, waterTerm)

\* calculateRatio(Qs, D50, Qw, S), at RatioScale
calculateRatio(qs, d50, qw, s) ==
    LET sedimentTerm == qs * mapD50(d50)
        waterTerm    == qw * mapSlope(s)
    IN  IF waterTerm = 0 THEN Infinity
        ELSE Quotient(sedimentTerm, waterTerm)

\* getImbalanceIndex with the lower clamp of calculateTiltAngle (0.1)
getImbalanceIndex_ClampTenth(r) ==
    LET clampedRatio == Max(Dec(1, 10, RatioScale), Min(100 * RatioScale, r))
    IN  Log10(clampedRatio)

\* getImbalanceIndex(ratio), at LogScale
getImbalanceIndex(r) ==
    LET clampedRatio == Max(Dec(1, 100, RatioScale), Min(100 * RatioScale, r))
    IN  Log10(clampedRatio)

\* getState without the dead zone: the sign of the index decides
getState_NoDeadZone(r) ==
    LET imbalance == getImbalanceIndex(r)
    IN  IF imbalance < 0 THEN "degradation"
        ELSE IF imbalance > 0 THEN "aggradation"
        ELSE "equilibrium"

\* getState(ratio)
getState(r) ==
    LET imbalance == getImbalanceIndex(r)
    IN  IF imbalance < -Dec(5, 100, LogScale) THEN "degradation"
        ELSE IF imbalance > Dec(5, 100, LogScale) THEN "aggradation"
        ELSE "equilibrium"

\* calculateTiltAngle without the negation of its last line
calculateTiltAngle_NotNegated(r) ==
    LET clampedRatio == Max(Dec(1, 10, RatioScale), Min(10 * RatioScale, r))
        logRatio     == Ln(clampedRatio)
        maxAngle     == 30
        scaleFactor  == MulDivRound(maxAngle * LogScale, LogScale, Ln(10 * RatioScale))
    IN  MulDivRound(MulDivRound(logRatio, scaleFactor, LogScale),
                    RatioScale, LogScale)

\* calculateTiltAngle(ratio), degrees at RatioScale (the product, which the
\* code leaves with the rounding of its last bit, is rounded to 4 decimals)
calculateTiltAngle(r) ==
    LET clampedRatio == Max(Dec(1, 10, RatioScale), Min(10 * RatioScale, r))
        logRatio     == Ln(clampedRatio)
        maxAngle     == 30
        scaleFactor  == MulDivRound(maxAngle * LogScale, LogScale, Ln(10 * RatioScale))
    IN  -MulDivRound(MulDivRound(logRatio, scaleFactor, LogScale),
                     RatioScale, LogScale)

\* calculateStreamPower(Qw, S), at RatioScale (exact)
calculateStreamPower(qw, s) == (qw * s * RatioScale) \div (100 * 100)

\* aggradationFactor left out of the braiding index
aggradationFactor_None(r) == 0

\* getChannelPattern: const aggradationFactor, at TermScale
aggradationFactor(r) ==
    IF r > RatioScale
    THEN Min(IF r = Infinity THEN Infinity
             ELSE MulDiv(r - RatioScale, 3 * TermScale, 10 * RatioScale),
             Dec(3, 10, TermScale))
    ELSE 0

\* braidingIndex with the inputs normalised by 1000 instead of 100
braidingIndex_Per1000(qs, d50, r) ==
    LET sedimentLoad == Dec(qs, 1000, TermScale)
        grainSize    == Dec(d50, 1000, TermScale)
    IN  MulDiv(sedimentLoad, Dec(35, 100, TermScale), TermScale)
        + MulDiv(grainSize, Dec(25, 100, TermScale), TermScale)
        + aggradationFactor(r)

\* getChannelPattern: const braidingIndex, at TermScale
braidingIndex(qs, d50, r) ==
    LET sedimentLoad == Dec(qs, 100, TermScale)
        grainSize    == Dec(d50, 100, TermScale)
    IN  MulDiv(sedimentLoad, Dec(35, 100, TermScale), TermScale)
        + MulDiv(grainSize, Dec(25, 100, TermScale), TermScale)
        + aggradationFactor(r)

\* getChannelPattern with the two tests in the other order
getChannelPattern_StraightFirst(qs, d50, qw, s, r) ==
    LET discharge == Dec(qw, 100, TermScale)
    IN  IF discharge < Dec(15, 100, TermScale) THEN "straight"
        ELSE IF braidingIndex(qs, d50, r) > Dec(5, 10, TermScale) THEN "braided"
        ELSE "meandering"

\* getChannelPattern with the stream power added to the braiding index
getChannelPattern_StreamPower(qs, d50, qw, s, r) ==
    LET slope       == Dec(s, 100, TermScale)
        discharge   == Dec(qw, 100, TermScale)
        streamPower == MulDiv(discharge, slope, TermScale)
    IN  IF braidingIndex(qs, d50, r) + streamPower \div 10 > Dec(5, 10, TermScale)
        THEN "braided"
        ELSE IF discharge < Dec(15, 100, TermScale) THEN "straight"
        ELSE "meandering"

\* getChannelPattern(Qs, D50, Qw, S, ratio); its quantities at TermScale
getChannelPattern(qs, d50, qw, s, r) ==
    LET slope       == Dec(s, 100, TermScale)
        discharge   == Dec(qw, 100, TermScale)
        streamPower == MulDiv(discharge, slope, TermScale)
    IN  IF braidingIndex(qs, d50, r) > Dec(5, 10, TermScale) THEN "braided"
        ELSE IF discharge < Dec(15, 100, TermScale) THEN "straight"
        ELSE "meandering"

Process(n, t) == [name |-> n, type |-> t]

\* the degradation branch with >= for the two stream power tests
degradationProcesses_Inclusive(r, streamPower) ==
    <<Process("Bed incision", "degradation")>>
    \o (IF streamPower >= Dec(3, 10, RatioScale)
        THEN <<Process("Bank erosion", "degradation")>> ELSE <<>>)
    \o (IF streamPower >= Dec(5, 10, RatioScale)
        THEN <<Process("Knickpoint migration", "degradation")>> ELSE <<>>)
    \o (IF r < Dec(5, 10, RatioScale)
        THEN <<Process("Bed armoring", "degradation")>> ELSE <<>>)

\* getActiveProcesses: the branch state === 'degradation'
degradationProcesses(r, streamPower) ==
    <<Process("Bed incision", "degradation")>>
    \o (IF streamPower > Dec(3, 10, RatioScale)
        THEN <<Process("Bank erosion", "degradation")>> ELSE <<>>)
    \o (IF streamPower > Dec(5, 10, RatioScale)
        THEN <<Process("Knickpoint migration", "degradation")>> ELSE <<>>)
    \o (IF r < Dec(5, 10, RatioScale)
        THEN <<Process("Bed armoring", "degradation")>> ELSE <<>>)

\* the aggradation branch with >= for the two ratio tests
aggradationProcesses_Inclusive(r) ==
    <<Process("Bar formation", "aggradation")>>
    \o (IF r >= Dec(15, 10, RatioScale)
        THEN <<Process("Channel widening", "aggradation")>> ELSE <<>>)
    \o (IF r >= 2 * RatioScale
        THEN <<Process("Avulsion risk", "aggradation")>> ELSE <<>>)
    \o <<Process("Overbank deposition", "aggradation")>>

\* getActiveProcesses: the branch state === 'aggradation'
aggradationProcesses(r) ==
    <<Process("Bar formation", "aggradation")>>
    \o (IF r > Dec(15, 10, RatioScale)
        THEN <<Process("Channel widening", "aggradation")>> ELSE <<>>)
    \o (IF r > 2 * RatioScale
        THEN <<Process("Avulsion risk", "aggradation")>> ELSE <<>>)
    \o <<Process("Overbank deposition", "aggradation")>>

\* the equilibrium branch with its two pushes in the other order
equilibriumProcesses_Swapped ==
    <<Process("Dynamic equilibrium", "equilibrium"),
      Process("Sediment transport balance", "equilibrium")>>

\* getActiveProcesses: the else branch (equilibrium)
equilibriumProcesses ==
    <<Process("Sediment transport balance", "equilibrium"),
      Process("Dynamic equilibrium", "equilibrium")>>

\* getActiveProcesses(ratio, Qw, S)
getActiveProcesses(r, qw, s) ==
    LET state       == getState(r)
        streamPower == calculateStreamPower(qw, s)
    IN  IF state = "degradation" THEN degradationProcesses(r, streamPower)
        ELSE IF state = "aggradation" THEN aggradationProcesses(r)
        ELSE equilibriumProcesses

(***************************************************************************)
(* The slider labels (balance.js).  A formatted number is the decimal      *)
(* numeral units / 10^places written with places decimals: "3.1" is        *)
(* Numeral(31, 1) and "100" is Numeral(100, 0).                            *)
(***************************************************************************)
Numeral(units, places) == [units |-> units, places |-> places]

\* x.toFixed(places), and Math.round(x).toString() for places = 0; x >= 0 at
\* TermScale
ToFixed(x, places) ==
    Numeral((x * 10^places + TermScale \div 2) \div TermScale, places)

\* the return statements of formatSlope (and of formatD50), s at TermScale
Formatted(s) ==
    IF s < TermScale THEN ToFixed(s, 2)
    ELSE IF s < 10 * TermScale THEN ToFixed(s, 1)
    ELSE ToFixed(s, 0)

\* formatSlope(value)
formatSlope(value) ==
    LET ratio    == MulDivRound(value - 1, LogScale, 99)
        logValue == -LogScale + 3 * ratio
    IN  Formatted(Pow10(logValue))

(***************************************************************************)
(* Math.sin, angles and results at FineScale (8 decimals).                 *)
(***************************************************************************)
FineScale == 10^8
\* FineScale = FineBase^2
FineBase  == 10^4

\* floor(a*b/FineScale) for 0 <= a < 7*FineScale and 0 <= b <= FineScale,
\* by their limbs at FineBase
MulFine(a, b) ==
    LET a1 == a \div FineBase
        a0 == a % FineBase
        b1 == b \div FineBase
        b0 == b % FineBase
    IN  a1 * b1 + (a1 * b0 + a0 * b1 + (a0 * b0) \div FineBase) \div FineBase

\* Math.PI and its multiples at FineScale
Pi     == 314159265
HalfPi == 157079633
TwoPi  == 628318531

SinTerms == 9

\* t - t x^2/(2k(2k+1)) + ... : the Taylor series of the sine from the
\* term t on, sq = x^2
RECURSIVE SinSeries(_, _, _)
SinSeries(t, sq, k) ==
    IF k > SinTerms \/ t = 0 THEN 0
    ELSE t - SinSeries(MulFine(t, sq) \div (2 * k * (2 * k + 1)), sq, k + 1)

\* sin of an angle in [0, 2 pi)
SinReduced(a) ==
    LET half  == IF a >= Pi THEN a - Pi ELSE a
        first == IF half > HalfPi THEN Pi - half ELSE half
        sine  == SinSeries(first, MulFine(first, first), 1)
    IN  IF a >= Pi THEN -sine ELSE sine

\* Math.sin of an angle a >= 0 of a few turns
Sin(a) == SinReduced(a % TwoPi)

(***************************************************************************)
(* const PlanView = { ... } (docs/js/planView.js): seeds and pseudoRandom. *)
(*                                                                         *)
(* A seed is a number of up to about 10^11 with a fraction: it is kept as  *)
(* hi * SeedBase + lo + frac / FracScale with 0 <= lo < SeedBase and       *)
(* 0 <= frac < FracScale.                                                  *)
(***************************************************************************)
SeedBase  == 10^6
FracScale == 10^9

Seed(h, l, f) == [hi |-> h, lo |-> l, frac |-> f]

\* 2^e as <<2^e \div SeedBase, 2^e % SeedBase>>, for e <= 40
Pow2Limbs(e) ==
    IF e <= 30 THEN <<2^e \div SeedBase, 2^e % SeedBase>>
    ELSE LET p == 2^(e - 10)
             h == 1024 * (p \div SeedBase)
             l == 1024 * (p % SeedBase)
         IN  <<h + l \div SeedBase, l % SeedBase>>

\* h * SeedBase + l < 2^e
BelowPow2(h, l, e) ==
    LET p == Pow2Limbs(e)
    IN  h < p[1] \/ (h = p[1] /\ l < p[2])

\* the exponent of the double h * SeedBase + l >= 1: floor(log2)
Exponent(h, l) ==
    CHOOSE e \in 0..39 : ~BelowPow2(h, l, e) /\ BelowPow2(h, l, e + 1)

\* the fraction key/1000 as the double sum (integer part) + key/1000 keeps
\* it: rounded to the 52 - e binary places left beside an integer part of
\* exponent e (kept as it is where more than 26 places are left)
DoubleFraction(h, l, key) ==
    LET places == 52 - Exponent(h, l)
    IN  IF (h = 0 /\ l = 0) \/ places > 26 THEN key * (FracScale \div 1000)
        ELSE LET units == MulDivRound(2^places, key, 1000)
             IN  MulDivRound(units, FracScale, 2^places)

\* 1/(2 pi) = 0.1591 5494 3091 8953 3576 8883 ..., in limbs at FineBase
InverseTwoPi == <<1591, 5494, 3091, 8953, 3576, 8883>>

\* the integer part of a seed in limbs at FineBase, lowest first
SeedLimbs(seed) ==
    <<seed.lo % FineBase,
      (seed.hi % 100) * 100 + seed.lo \div FineBase,
      seed.hi \div 100>>

\* the sum of the limb products of SeedLimbs(seed) * InverseTwoPi that
\* weigh FineBase^(-d)
TurnProducts(seed, d) ==
    LET i == SeedLimbs(seed)
    IN  i[1] * InverseTwoPi[d] + i[2] * InverseTwoPi[d + 1]
        + i[3] * InverseTwoPi[d + 2]

\* the limb of SeedLimbs(seed) * InverseTwoPi that weighs FineBase^(-d), with
\* the carries of the limbs below it (not reduced modulo FineBase)
RECURSIVE TurnCarry(_, _)
TurnCarry(seed, d) ==
    IF d > 4 THEN 0
    ELSE TurnProducts(seed, d) + TurnCarry(seed, d + 1) \div FineBase

\* the fraction of a turn of the integer part of a seed: the fractional
\* part of (integer part)/(2 pi), as <<fraction at FineScale, next limb>>
TurnFraction(seed) ==
    <<(TurnCarry(seed, 1) % FineBase) * FineBase + (TurnCarry(seed, 2) % FineBase),
      TurnCarry(seed, 3) % FineBase>>

\* the angle of a seed modulo 2 pi, at FineScale, from the fraction of a
\* turn of its integer part and its fraction
TurnAngle(turn, frac) ==
    MulFine(TwoPi, turn[1]) + (turn[2] * (TwoPi \div 10^6)) \div 10^6
    + frac \div (FracScale \div FineScale)

\* pseudoRandom(seed): the fractional part of Math.sin(seed) * 10000, at
\* FineBase (4 decimals)
pseudoRandom(seed) ==
    Sin(TurnAngle(TurnFraction(seed), seed.frac)) % FineBase

\* seed + n for an integer n >= 0
SeedPlus(seed, n) ==
    Seed(seed.hi + (seed.lo + n) \div SeedBase, (seed.lo + n) % SeedBase, seed.frac)

\* a key of 1000, one beyond the clamp
RatioKey_Beyond(r) == 1000

\* const ratioKey of computeSeed; Math.round is floor(x + 0.5)
RatioKey(r) ==
    LET logRatio == Log10(Max(Dec(1, 100, RatioScale), r))
        rounded  == IF logRatio = Infinity THEN Infinity
                    ELSE (100 * logRatio + 500 * LogScale + LogScale \div 2)
                             \div LogScale
    IN  Max(0, Min(999, rounded))

\* computeSeed: the value returned, ratioKey being computed
SeedOf(qs, d50, qw, s, ratioKey) ==
    LET low == qw * 1000 + s
        h   == qs * 1000 + d50 + low \div SeedBase
        l   == low % SeedBase
    IN  Seed(h, l, DoubleFraction(h, l, ratioKey))

\* computeSeed(Qs, D50, Qw, S, ratio)
computeSeed(qs, d50, qw, s, r) == SeedOf(qs, d50, qw, s, RatioKey(r))

(***************************************************************************)
(* The plan view (planView.js).  Lengths are in pixels at PxScale, the     *)
(* scale of the values pseudoRandom returns.  A drawn element is a record  *)
(* of its tag, its class and the attributes computed for it; an attribute  *)
(* that is a fixed function of pseudo-random values is represented by the  *)
(* sub-seeds it is computed from: seed, seed + stride, ... (uses of them). *)
(* The channel group is the sequence of its elements in document order.    *)
(***************************************************************************)
PxScale == FineBase

\* sine * length, the sine at FineScale, length >= 0 at PxScale
TimesSine(sine, length) ==
    IF sine >= 0 THEN MulFine(sine, length) ELSE -MulFine(-sine, length)

\* Math.sin(angle) * length
SinTimes(angle, length) == TimesSine(Sin(angle), length)

\* the sub-seeds an element draws its pseudo-random values from
SubSeeds(element) ==
    {SeedPlus(element.seed, k * element.stride) : k \in 0..(element.uses - 1)}

\* generateMeanderingPath: const steps
MeanderSteps == 100

\* generateMeanderingPath: (x / wavelength) * Math.PI * 2 of sample i, where
\* x / wavelength = (i / steps) * width / (width / 3)
MeanderAngle(i) == MulFine(TwoPi, 3 * i * (FineScale \div MeanderSteps))

\* generateMeanderingPath: Math.sin of the angle of every sample, which
\* depends on neither the parameters nor the size of the view
MeanderSines == [i \in 0..MeanderSteps |-> Sin(MeanderAngle(i))]

\* generateMeanderingPath(Qw, sinuosity) of a view of the given size;
\* sinuosity at PxScale
generateMeanderingPath(qw, sinuosity, width, height) ==
    LET baseWidth == 15 * PxScale + (qw * 25 * PxScale) \div 100
        amplitude == 25 * sinuosity
    IN  [points |-> [i \in 0..MeanderSteps |->
                        [x |-> (i * width * PxScale) \div MeanderSteps,
                         y |-> (height * PxScale) \div 2
                               + TimesSine(MeanderSines[i], amplitude)]],
         width  |-> baseWidth]

\* addPointBars: the sample indices visited by the loop
\* for (i = 10; i < points.length - 10; i += 25)
PointBarCandidates == {i \in 0..MeanderSteps : i >= 10 /\ i < MeanderSteps + 1 - 10
                                                /\ (i - 10) % 25 = 0}

\* addPointBars: the test "Local extremum" of sample i against the samples
\* gap before and after it
IsExtremum(points, i, gap) ==
    LET prev == points[i - gap].y
        curr == points[i].y
        next == points[i + gap].y
    IN  (curr > prev /\ curr > next) \/ (curr < prev /\ curr < next)

\* the numbers of the set s in increasing order, as a sequence
RECURSIVE Ascending(_)
Ascending(s) ==
    IF s = {} THEN <<>>
    ELSE LET least == CHOOSE a \in s : \A b \in s : a <= b
         IN  <<least>> \o Ascending(s \ {least})

\* addPointBars(points, channelWidth, sinuosity): the elements it appends
addPointBars(points, channelWidth, sinuosity, height, currentSeed) ==
    IF sinuosity < Dec(12, 10, PxScale) THEN <<>>
    ELSE LET barPositions ==
                 Ascending({i \in PointBarCandidates : IsExtremum(points, i, 5)})
         IN  [index \in 1..Len(barPositions) |->
                 LET bar     == points[barPositions[index]]
                     side    == IF bar.y > (height * PxScale) \div 2 THEN -1 ELSE 1
                     barSeed == SeedPlus(currentSeed, 3000 + (index - 1) * 23)
                     offset  == MulDiv(channelWidth,
                                       250000 + 15 * pseudoRandom(barSeed), 10^6)
                 IN  [tag |-> "ellipse", class |-> "channel-bar point-bar",
                      feature |-> <<"point bar", index - 1>>,
                      cx |-> bar.x, cy |-> bar.y + side * offset,
                      rx |-> (channelWidth * 55) \div 100,
                      ry |-> (channelWidth * 28) \div 100,
                      seed |-> barSeed, stride |-> 1, uses |-> 1]]

\* addMidChannelBars: the gravel circles on bar i, gravelCount of them
BarGravel(i, barSeed, gravelCount) ==
    [n \in 1..gravelCount |->
        [tag |-> "circle", class |-> "", feature |-> <<"bar gravel", i>>,
         seed |-> SeedPlus(barSeed, 100 + (n - 1) * 11), stride |-> 1, uses |-> 3]]

\* addMidChannelBars: the ellipse of bar i and the gravel drawn on it
MidChannelBar(i, points, channelWidth, d50, seedBase) ==
    LET barSeed        == SeedPlus(seedBase, i * 37)
        pointIndex     == (15 * PxScale + 70 * pseudoRandom(barSeed)) \div PxScale
        point          == points[pointIndex]
        sizeMultiplier == 500 + 8 * d50
        barWidth       == MulDiv(MulDiv(channelWidth,
                                        200000 + 25 * pseudoRandom(SeedPlus(barSeed, 3)),
                                        10^6),
                                 sizeMultiplier, 1000)
        gravel         == barWidth > channelWidth \div 4
        gravelCount    == 2 + (4 * pseudoRandom(SeedPlus(barSeed, 7))) \div PxScale
    IN  <<[tag |-> "ellipse", class |-> "channel-bar mid-channel-bar",
           feature |-> <<"mid-channel bar", i>>,
           cx |-> point.x, rx |-> barWidth,
           seed |-> barSeed, stride |-> 1, uses |-> IF gravel THEN 8 ELSE 7]>>
        \o (IF gravel THEN BarGravel(i, barSeed, gravelCount) ELSE <<>>)

RECURSIVE MidChannelBars(_, _, _, _, _, _)
MidChannelBars(i, numBars, points, channelWidth, d50, seedBase) ==
    IF i >= numBars THEN <<>>
    ELSE MidChannelBar(i, points, channelWidth, d50, seedBase)
         \o MidChannelBars(i + 1, numBars, points, channelWidth, d50, seedBase)

\* addMidChannelBars(points, channelWidth, Qs, D50): the elements it appends
addMidChannelBars(points, channelWidth, qs, d50, currentSeed) ==
    LET sedimentFactor == (Dec(qs, 100, TermScale) + Dec(d50, 100, TermScale)) \div 2
        numBars        == ((sedimentFactor - Dec(35, 100, TermScale)) * 12) \div TermScale
    IN  IF sedimentFactor < Dec(35, 100, TermScale) \/ numBars <= 0 THEN <<>>
        ELSE MidChannelBars(0, numBars, points, channelWidth, d50,
                            SeedPlus(currentSeed, 4000))

\* drawFlowElements(pathNode, channelWidth, Qw): the circles it joins to
\* the group
drawFlowElements(qw, currentSeed) ==
    [n \in 1..(10 + qw \div 5) |->
        [tag |-> "circle", class |-> "flow-element", feature |-> <<"flow", 0>>,
         id |-> n - 1, r |-> (15 * PxScale) \div 10 + (qw * 15 * PxScale) \div 1000,
         seed |-> currentSeed, stride |-> 1, uses |-> 0]]

\* this.channelGroup.selectAll('*').remove(), with which every draw starts
Cleared_Kept(group) == group

Cleared(group) == SubSeq(group, 1, 0)

\* drawMeandering(Qw, sinuosity, Qs, D50) on a group, in a view of the
\* given size and seed: the group afterwards
drawMeandering(group, qw, sinuosity, qs, d50, currentSeed, width, height) ==
    LET path == generateMeanderingPath(qw, sinuosity, width, height)
        line == [curve |-> "meander", amplitude |-> 25 * sinuosity,
                 width |-> width, height |-> height]
    IN  Cleared(group)
        \o <<[tag |-> "path", class |-> "channel-bank", feature |-> <<"channel", 0>>,
              d |-> line, strokeWidth |-> path.width + 4 * PxScale,
              seed |-> currentSeed, stride |-> 1, uses |-> 0],
             [tag |-> "path", class |-> "channel-main", feature |-> <<"channel", 0>>,
              d |-> line, strokeWidth |-> path.width,
              seed |-> currentSeed, stride |-> 1, uses |-> 0]>>
        \o addPointBars(path.points, path.width, sinuosity, height, currentSeed)
        \o addMidChannelBars(path.points, path.width, qs, d50, currentSeed)
        \o drawFlowElements(qw, currentSeed)

\* drawStraight(Qw): the group afterwards.  Point i of the line is
\* drawn from pseudoRandom(seedBase + i * 13), i = 0..20
drawStraight(group, qw, currentSeed, width, height) ==
    LET baseWidth == 12 * PxScale + (qw * 20 * PxScale) \div 100
        seedBase  == SeedPlus(currentSeed, 1000)
        line      == [curve |-> "straight", amplitude |-> 5 * PxScale,
                      width |-> width, height |-> height]
    IN  Cleared(group)
        \o <<[tag |-> "path", class |-> "channel-bank", feature |-> <<"channel", 0>>,
              d |-> line, strokeWidth |-> baseWidth + 4 * PxScale,
              seed |-> seedBase, stride |-> 13, uses |-> 21],
             [tag |-> "path", class |-> "channel-main", feature |-> <<"channel", 0>>,
              d |-> line, strokeWidth |-> baseWidth,
              seed |-> seedBase, stride |-> 13, uses |-> 21]>>
        \o drawFlowElements(qw, currentSeed)

\* pathNode.getTotalLength() of a channel path.  The length is the
\* browser's; it is taken as the length of the path's chord, which runs over
\* the width of the view.
PathLength(width) == width * PxScale

\* drawBraided: the gravel patches of the braidplain
GravelPatches(qs, seedBase) ==
    [n \in 1..(40 + qs \div 3) |->
        [tag |-> "ellipse", class |-> "", feature |-> <<"gravel patch", n - 1>>,
         seed |-> SeedPlus(seedBase, 1000 + (n - 1) * 17), stride |-> 1, uses |-> 7]]

\* a * b for a of either sign and b >= 0, both at PxScale
MulPx(a, b) ==
    IF a >= 0 THEN MulDiv(a, b, PxScale) ELSE -MulDiv(-a, b, PxScale)

\* drawBraided: const totalWidth and const centerY
BraidplainWidth(qw) == 60 * PxScale + (qw * 50 * PxScale) \div 100
CenterY(height) == (height * PxScale) \div 2

\* drawBraided: const channelWidth of the channel of channelSeed
BraidedChannelWidth(qw, channelSeed) ==
    3 * PxScale + (qw * 5 * PxScale) \div 100 + 4 * pseudoRandom(channelSeed)

\* drawBraided: the samples per channel, i = 0 .. 40
BraidedSteps == 40

\* drawBraided: y of sample i before it is kept within the bounds.
\* t * waveFreq / 2 turns, and 2.3 times as many, are reduced to a fraction
\* of a turn at FineScale before the sine is taken.
BraidedSampleY(i, channelSeed, centerY, yStart, waveFreq, waveAmp) ==
    centerY + yStart
    + SinTimes(MulFine(TwoPi, (i * waveFreq * 125) % FineScale), waveAmp)
    + SinTimes(MulFine(TwoPi, ((i * waveFreq * 575) \div 2) % FineScale),
               (waveAmp * 4) \div 10)
    + (pseudoRandom(SeedPlus(channelSeed, 4 + i)) - PxScale \div 2) * 8

\* the bounds left without effect
KeepWithinBounds_Not(y, low, high) == y

\* drawBraided, "Keep within braidplain bounds":
\* Math.max(low, Math.min(high, y))
KeepWithinBounds(y, low, high) == Max(low, Min(high, y))

\* drawBraided: points of a channel, given its width and the values drawn
\* from channelSeed + 1, + 2 and + 3
BraidedPoints(channelSeed, width, centerY, totalWidth, channelWidth, yStart, waveFreq, waveAmp) ==
    [i \in 0..BraidedSteps |->
        [x |-> (i * width * PxScale) \div BraidedSteps,
         y |-> KeepWithinBounds(
                   BraidedSampleY(i, channelSeed, centerY, yStart, waveFreq, waveAmp),
                   centerY - totalWidth \div 2 + channelWidth,
                   centerY + totalWidth \div 2 - channelWidth)]]

\* drawBraided: points of the channel of channelSeed for a discharge and a
\* view size
BraidedChannelPoints(channelSeed, qw, width, height) ==
    BraidedPoints(channelSeed, width, CenterY(height), BraidplainWidth(qw),
                  BraidedChannelWidth(qw, channelSeed),
                  MulPx(pseudoRandom(SeedPlus(channelSeed, 1)) - PxScale \div 2,
                        (BraidplainWidth(qw) * 7) \div 10),
                  2 * PxScale + 2 * pseudoRandom(SeedPlus(channelSeed, 2)),
                  8 * PxScale + 12 * pseudoRandom(SeedPlus(channelSeed, 3)))

\* drawBraided: the path of channel c and its highlight; the width and the
\* start are drawn from channelSeed .. channelSeed + 3 and point i from
\* channelSeed + 4 + i, i = 0..40
BraidedChannel(c, seedBase) ==
    LET channelSeed == SeedPlus(seedBase, c * 97)
    IN  <<[tag |-> "path", class |-> "braided-channel", feature |-> <<"thread", c>>,
           seed |-> channelSeed, stride |-> 1, uses |-> 45],
          [tag |-> "path", class |-> "braided-channel-highlight",
           feature |-> <<"thread", c>>,
           seed |-> channelSeed, stride |-> 1, uses |-> 45]>>

RECURSIVE BraidedChannels(_, _, _)
BraidedChannels(c, numChannels, seedBase) ==
    IF c >= numChannels THEN <<>>
    ELSE BraidedChannel(c, seedBase) \o BraidedChannels(c + 1, numChannels, seedBase)

\* drawBraided: the connections between the channels
Connections(numChannels, seedBase) ==
    [n \in 1..((numChannels * 15) \div 10) |->
        [tag |-> "path", class |-> "", feature |-> <<"connector", n - 1>>,
         seed |-> SeedPlus(seedBase, 3000 + (n - 1) * 41), stride |-> 1, uses |-> 5]]

\* drawBraidedFlowElementsNew: the circles along channel cIndex
ChannelFlowElements(cIndex, qw, currentSeed, width) ==
    LET pathLength  == PathLength(width)
        numElements == (pathLength \div 40 + (qw * PxScale) \div 20) \div PxScale
    IN  [n \in 1..numElements |->
            [tag |-> "circle", class |-> "flow-element", feature |-> <<"flow", cIndex>>,
             id |-> <<cIndex, n - 1>>, r |-> (12 * PxScale) \div 10 + (qw * PxScale) \div 100,
             seed |-> SeedPlus(currentSeed, cIndex * 100 + n - 1),
             stride |-> 1, uses |-> 1]]

RECURSIVE drawBraidedFlowElementsNew(_, _, _, _, _)
drawBraidedFlowElementsNew(cIndex, numChannels, qw, currentSeed, width) ==
    IF cIndex >= numChannels THEN <<>>
    ELSE ChannelFlowElements(cIndex, qw, currentSeed, width)
         \o drawBraidedFlowElementsNew(cIndex + 1, numChannels, qw, currentSeed, width)

\* drawBraided(Qw, Qs, D50): the group afterwards
drawBraided(group, qw, qs, d50, currentSeed, width, height) ==
    LET totalWidth  == 60 * PxScale + (qw * 50 * PxScale) \div 100
        centerY     == (height * PxScale) \div 2
        seedBase    == SeedPlus(currentSeed, 2000)
        numChannels == 3 + qw \div 25
    IN  Cleared(group)
        \o <<[tag |-> "rect", class |-> "braidplain-bank", feature |-> <<"braidplain", 0>>,
              y |-> centerY - totalWidth \div 2 - 4 * PxScale,
              width |-> width * PxScale, height |-> totalWidth + 8 * PxScale,
              seed |-> seedBase, stride |-> 1, uses |-> 0],
             [tag |-> "rect", class |-> "braidplain-gravel", feature |-> <<"braidplain", 0>>,
              y |-> centerY - totalWidth \div 2,
              width |-> width * PxScale, height |-> totalWidth,
              seed |-> seedBase, stride |-> 1, uses |-> 0]>>
        \o GravelPatches(qs, seedBase)
        \o BraidedChannels(0, numChannels, seedBase)
        \o Connections(numChannels, seedBase)
        \o drawBraidedFlowElementsNew(0, numChannels, qw, currentSeed, width)

\* x || fallback for a number x
OrElse(x, fallback) == IF x = 0 THEN fallback ELSE x

\* pathNode.getPointAtLength(offset): the point of the path at that length
\* along it
getPointAtLength(pathNode, offset) == [path |-> pathNode, length |-> offset]

\* the datum pushed to this.flowElements for an element of the given id on
\* pathNode, at offset
FlowDatum(id, pathNode, offset, pathLength, speed) ==
    [id |-> id, at |-> getPointAtLength(pathNode, offset),
     offset |-> offset, pathLength |-> pathLength, pathNode |-> pathNode,
     speed |-> speed]

\* drawFlowElements: this.flowElements, the data of the circles along the
\* main channel
FlowElements(qw, width) ==
    LET numFlowElements == 10 + qw \div 5
        pathLength      == PathLength(width)
    IN  [n \in 1..numFlowElements |->
            FlowDatum(n - 1, <<"channel", 0>>,
                      (pathLength * (n - 1)) \div numFlowElements, pathLength,
                      (5 * PxScale) \div 10 + (qw * 5 * PxScale) \div 1000)]

\* drawBraidedFlowElementsNew: the data pushed for channel cIndex
ChannelFlowData(cIndex, qw, currentSeed, width) ==
    LET pathLength  == PathLength(width)
        numElements == (pathLength \div 40 + (qw * PxScale) \div 20) \div PxScale
    IN  [n \in 1..numElements |->
            FlowDatum(<<cIndex, n - 1>>, <<"braided channel", cIndex>>,
                      ((pathLength * (n - 1)) \div numElements
                       + pseudoRandom(SeedPlus(currentSeed, cIndex * 100 + n - 1))
                         * 20) % pathLength,
                      pathLength,
                      (6 * PxScale) \div 10 + (qw * 8 * PxScale) \div 1000)]

\* drawBraidedFlowElementsNew: this.flowElements, from channel cIndex on
RECURSIVE BraidedFlowElements(_, _, _, _, _)
BraidedFlowElements(cIndex, numChannels, qw, currentSeed, width) ==
    IF cIndex >= numChannels THEN <<>>
    ELSE ChannelFlowData(cIndex, qw, currentSeed, width)
         \o BraidedFlowElements(cIndex + 1, numChannels, qw, currentSeed, width)

\* this.flowElements as the draw of a pattern leaves it
PatternFlowElements(pattern, qw, currentSeed, width) ==
    IF pattern = "braided"
    THEN BraidedFlowElements(0, 3 + qw \div 25, qw, currentSeed, width)
    ELSE FlowElements(qw, width)

\* the offset kept as it is
Wrapped_Not(offset, pathLength) == offset

\* offset % d.pathLength
Wrapped(offset, pathLength) == offset % pathLength

\* updateFlowAnimation: what it does to the element d
Moved(d) ==
    LET offset == Wrapped(d.offset + d.speed, d.pathLength)
    IN  [d EXCEPT !.offset = offset, !.at = getPointAtLength(d.pathNode, offset)]

\* updateFlowAnimation() on this.flowElements
updateFlowAnimation(flowElements) ==
    [i \in DOMAIN flowElements |-> Moved(flowElements[i])]

\* the channel geometry update() draws for a pattern: drawStraight(Qw),
\* drawBraided(Qw, Qs, D50) or drawMeandering(Qw, max(1.05, sinuosity), Qs, D50)
DrawPattern(group, pattern, qs, d50, qw, currentSeed, width, height) ==
    IF pattern = "straight" THEN drawStraight(group, qw, currentSeed, width, height)
    ELSE IF pattern = "braided"
    THEN drawBraided(group, qw, qs, d50, currentSeed, width, height)
    ELSE LET sinuosity == Dec(11, 10, PxScale) + (qw * 5 * PxScale) \div 1000
                          - (qs * 2 * PxScale) \div 1000
         IN  drawMeandering(group, qw, Max(Dec(105, 100, PxScale), sinuosity),
                            qs, d50, currentSeed, width, height)

\* PlanView.init: const initialSinuosity
InitialSinuosity == Dec(11, 10, PxScale) + (50 * 5 * PxScale) \div 1000
                    - (50 * 2 * PxScale) \div 1000

\* the PlanView object as the script defines it.  svg tells whether init has
\* created the svg and the channel group (both null before); the id of an
\* animation frame is a positive number and flowAnimationId: null is 0.
\* flowTicks counts the calls of updateFlowAnimation since startFlowAnimation
\* (flowLastTimestamp holds the time of the last of them).
PlanViewObject ==
    [svg |-> FALSE, width |-> 0, height |-> 0, channelGroup |-> <<>>,
     currentPattern |-> "meandering",
     lastQs |-> 50, lastQw |-> 50, lastD50 |-> 50, lastS |-> 50,
     currentSeed |-> Seed(0, 0, 0),
     flowAnimationId |-> 0, flowAnimationRunning |-> FALSE,
     flowTicks |-> 0, flowElements |-> <<>>,
     patternLabel |-> ""]

\* requestAnimationFrame(step): the id of the new request, one that no
\* pending request has and that the view does not hold
RequestId(pv, frames) ==
    CHOOSE id \in 1..(Cardinality(frames) + 2) :
        /\ id \notin frames /\ id # pv.flowAnimationId
        /\ \A other \in 1..(id - 1) : other \in frames \/ other = pv.flowAnimationId

\* startFlowAnimation(): the view and the pending animation frames afterwards
startFlowAnimation(pv, frames) ==
    LET id == RequestId(pv, frames)
    IN  [pv     |-> [pv EXCEPT !.flowAnimationRunning = TRUE, !.flowAnimationId = id,
                               !.flowTicks = 0],
         frames |-> frames \cup {id}]

\* the animation stopped and its pending frame left uncancelled
stopFlowAnimation_NoCancel(pv, frames) ==
    [pv     |-> [pv EXCEPT !.flowAnimationRunning = FALSE, !.flowAnimationId = 0],
     frames |-> frames]

\* stopFlowAnimation()
stopFlowAnimation(pv, frames) ==
    IF pv.flowAnimationId # 0
    THEN [pv     |-> [pv EXCEPT !.flowAnimationRunning = FALSE, !.flowAnimationId = 0],
          frames |-> frames \ {pv.flowAnimationId}]
    ELSE [pv |-> [pv EXCEPT !.flowAnimationRunning = FALSE], frames |-> frames]

\* const labels of updatePatternLabel
PatternLabels ==
    [straight |-> "Straight Channel", meandering |-> "Meandering Channel",
     braided |-> "Braided Channel"]

\* PlanView.init(containerId) for a container of the given size
PlanViewInit(pv, frames, rect) ==
    LET width  == OrElse(rect.width, 600) - 20 - 20
        height == OrElse(rect.height, 160) - 10 - 10
    IN  startFlowAnimation(
            [pv EXCEPT !.svg = TRUE, !.width = width, !.height = height,
                       !.patternLabel = "",
                       !.channelGroup =
                           drawMeandering(<<>>, 50, InitialSinuosity, 50, 50,
                                          pv.currentSeed, width, height),
                       !.flowElements = FlowElements(50, width)],
            frames)

\* no change of a parameter taken as one
ParamChanged_Never(pv, qs, d50, qw, s) == FALSE

\* const paramChanged of PlanView.update: "Check if any parameter changed
\* (threshold of 1 unit)"
ParamChanged(pv, qs, d50, qw, s) ==
    \/ Abs(qs - pv.lastQs) > 1
    \/ Abs(qw - pv.lastQw) > 1
    \/ Abs(d50 - OrElse(pv.lastD50, 50)) > 1
    \/ Abs(s - OrElse(pv.lastS, 50)) > 1

\* PlanView.update from "Redraw if pattern changed OR parameters changed
\* significantly" on, pattern and currentSeed being computed: the view, the
\* pending animation frames and whether the channel was redrawn
PlanViewRedraw(pv, frames, qs, d50, qw, s, pattern, currentSeed) ==
    LET seeded         == [pv EXCEPT !.currentSeed = currentSeed]
        paramChanged   == ParamChanged(pv, qs, d50, qw, s)
        patternChanged == pattern # pv.currentPattern
        stopped        == stopFlowAnimation(
                              [seeded EXCEPT !.currentPattern = pattern,
                                             !.lastQs = qs, !.lastQw = qw,
                                             !.lastD50 = d50, !.lastS = s],
                              frames)
    IN  IF patternChanged \/ paramChanged
        THEN [plan   |-> startFlowAnimation(
                             [stopped.pv EXCEPT
                                 !.channelGroup =
                                     DrawPattern(@, pattern, qs, d50, qw, currentSeed,
                                                 pv.width, pv.height),
                                 !.flowElements =
                                     PatternFlowElements(pattern, qw, currentSeed,
                                                         pv.width),
                                 !.patternLabel = PatternLabels[pattern]],
                             stopped.frames),
              redraw |-> TRUE]
        ELSE [plan   |-> [pv     |-> [seeded EXCEPT
                                         !.patternLabel = PatternLabels[pattern]],
                          frames |-> frames],
              redraw |-> FALSE]

\* PlanView.update(Qs, D50, Qw, S, ratio, duration): plan, the view and the
\* pending animation frames, and redraw, whether the channel was redrawn
PlanViewUpdate(pv, frames, qs, d50, qw, s, r) ==
    IF ~pv.svg THEN [plan |-> [pv |-> pv, frames |-> frames], redraw |-> FALSE]
    ELSE PlanViewRedraw(pv, frames, qs, d50, qw, s,
                        getChannelPattern(qs, d50, qw, s, r),
                        computeSeed(qs, d50, qw, s, r))

(***************************************************************************)
(* The scale view (scaleView.js): the rock pile, the water and the pans.   *)
(***************************************************************************)

\* updateRocks: the rocks before they are sorted; rock i takes x, y and
\* size from pseudoRandom(seed), (seed + 1) and (seed + 2).  y is computed,
\* x and size are represented by the seed.
Rocks(qs, d50) ==
    LET numRocks == (2 * 100 + qs * 10) \div 100
        baseSize == 3 * PxScale + (d50 * 7 * PxScale) \div 100
        baseSeed == qs * 1000 + d50 * 10
    IN  [n \in 1..numRocks |->
            LET i     == n - 1
                layer == i \div 3
                seed  == Seed(0, baseSeed + i * 17, 0)
                randY == pseudoRandom(SeedPlus(seed, 1))
                y     == 18 * PxScale - (layer * baseSize * 9) \div 10 - randY * 3
            IN  [i |-> i, layerWidth |-> Max(50 - layer * 12, 10),
                 y |-> Max(y, 5 * PxScale), seed |-> seed]]

\* rock put into a sequence sorted by (a, b) => b.y - a.y, behind the
\* rocks that do not sort after it
RECURSIVE InsertRock(_, _)
InsertRock(sorted, rock) ==
    IF sorted = <<>> THEN <<rock>>
    ELSE IF sorted[Len(sorted)].y >= rock.y THEN Append(sorted, rock)
    ELSE Append(InsertRock(SubSeq(sorted, 1, Len(sorted) - 1), rock),
                sorted[Len(sorted)])

\* the rocks left in the order of their creation
SortRocks_Unsorted(rocks) == rocks

\* rocks.sort((a, b) => b.y - a.y): a stable sort by decreasing y
RECURSIVE SortRocks(_)
SortRocks(rocks) ==
    IF rocks = <<>> THEN <<>>
    ELSE InsertRock(SortRocks(SubSeq(rocks, 1, Len(rocks) - 1)), rocks[Len(rocks)])

\* updateRocks(Qs, D50): the sediment group afterwards
updateRocks(group, qs, d50) ==
    LET rocks    == SortRocks(Rocks(qs, d50))
        baseSeed == qs * 1000 + d50 * 10
    IN  Cleared(group)
        \o [n \in 1..Len(rocks) |->
               [tag |-> "ellipse", class |-> "", feature |-> <<"rock", n - 1>>,
                rock |-> rocks[n].i, layerWidth |-> rocks[n].layerWidth,
                cy |-> rocks[n].y,
                seed |-> Seed(0, baseSeed + (n - 1) * 17 + 3, 0),
                stride |-> 1, uses |-> 2]]

\* drawWaterBucket: this.bucketDimensions
BucketDimensions ==
    [topWidth |-> (55 - 6) * PxScale, bottomWidth |-> (55 - 12 - 6) * PxScale,
     height |-> (45 - 4) * PxScale, top |-> 2 * PxScale]

\* updateWater(Qw, S): the water group afterwards
updateWater(group, qw, s) ==
    LET dim           == BucketDimensions
        fillPercent   == Dec(15, 100, PxScale) + (qw * 7 * PxScale) \div 1000
        waterHeight   == MulDiv(dim.height, fillPercent, PxScale)
        waterTop      == dim.top + dim.height - waterHeight
        taperRatio    == MulDiv(waterTop - dim.top, PxScale, dim.height)
        waterTopWidth == dim.topWidth
                         - MulDiv(dim.topWidth - dim.bottomWidth, taperRatio, PxScale)
        waveAmplitude == PxScale + (s * 2 * PxScale) \div 100
        numWaves      == 2 + s \div 40
    IN  Cleared(group)
        \o <<[tag |-> "path", class |-> "water-fill",
              top |-> waterTop, topWidth |-> waterTopWidth],
             [tag |-> "path", class |-> "water-surface",
              top |-> waterTop, topWidth |-> waterTopWidth,
              waves |-> numWaves, amplitude |-> waveAmplitude]>>

\* getPanPosition(sliderValue, isLeft) for a beam of the given length
getPanPosition(sliderValue, isLeft, beamLength) ==
    LET minOffset == (beamLength * 25) \div 100
        maxOffset == (beamLength * 50) \div 100
        offset    == minOffset + ((sliderValue - 1) * (maxOffset - minOffset)) \div 99
    IN  IF isLeft THEN -offset ELSE offset

\* updateArrow: the rotation of the arrow in degrees, at LogScale
ArrowAngle(r) ==
    LET clampedRatio == Max(RatioScale \div 10, Min(10 * RatioScale, r))
    IN  50 * Log10(clampedRatio)

\* the ScaleView object as the script defines it; svg tells whether init has
\* created the svg with the beam, the pans and the groups (null before)
ScaleViewObject ==
    [svg |-> FALSE, width |-> 0, height |-> 0,
     sedimentGroup |-> <<>>, waterGroup |-> <<>>,
     leftX |-> 0, rightX |-> 0, angle |-> 0, arrow |-> 0, visual |-> "",
     currentParams |-> [Qs |-> 50, D50 |-> 50, Qw |-> 50, S |-> 50]]

\* ScaleView.init(containerId) for a container of the given size
ScaleViewInit(sv, rect) ==
    LET width      == OrElse(rect.width, 500)
        height     == OrElse(rect.height, 280)
        beamLength == (width * PxScale * 72) \div 100
    IN  [sv EXCEPT !.svg = TRUE, !.width = width, !.height = height,
                   !.leftX = getPanPosition(50, TRUE, beamLength),
                   !.rightX = getPanPosition(50, FALSE, beamLength),
                   !.angle = 0, !.arrow = 0, !.visual = "",
                   !.sedimentGroup = updateRocks(<<>>, 50, 50),
                   !.waterGroup = updateWater(<<>>, 50, 50)]

\* ScaleView.update(ratio, params, duration), by the values its transitions
\* end at
ScaleViewUpdate(sv, r, params) ==
    IF ~sv.svg THEN sv
    ELSE LET beamLength == (sv.width * PxScale * 72) \div 100
             rocks  == params.Qs # sv.currentParams.Qs \/ params.D50 # sv.currentParams.D50
             water  == params.Qw # sv.currentParams.Qw \/ params.S # sv.currentParams.S
             pans   == params.D50 # sv.currentParams.D50 \/ params.S # sv.currentParams.S
         IN  [sv EXCEPT
                 !.angle = calculateTiltAngle(r),
                 !.arrow = ArrowAngle(r),
                 !.sedimentGroup = IF rocks THEN updateRocks(@, params.Qs, params.D50) ELSE @,
                 !.waterGroup = IF water THEN updateWater(@, params.Qw, params.S) ELSE @,
                 !.leftX = IF pans THEN getPanPosition(params.D50, TRUE, beamLength) ELSE @,
                 !.rightX = IF pans THEN getPanPosition(params.S, FALSE, beamLength) ELSE @,
                 !.currentParams = params,
                 !.visual = getState(r)]

(***************************************************************************)
(* The calls of the Balance functions.  A caller holds a parameter set     *)
(* (Qs, D50, Qw, S) and a ratio: the ratio it was handed, or the one       *)
(* calculateRatio returned for the parameter set.  op names the last       *)
(* function called and ret holds what it returned; threw tells whether the  *)
(* call ended with an exception instead of a return (no function of        *)
(* Balance or PlanView has a throw statement or calls one that has).       *)
(***************************************************************************)
VARIABLES Qs, D50, Qw, S, ratio, ratioFrom, op, ret, threw

(***************************************************************************)
(* The page: the application's state object, the two view objects, the     *)
(* browser's side of it (window) and the last step taken (ev).              *)
(***************************************************************************)
VARIABLES state, PlanView, ScaleView, window, ev

balanceVars == <<Qs, D50, Qw, S, ratio, ratioFrom, op, ret, threw>>

appVars == <<state, PlanView, ScaleView, window, ev>>

vars == <<Qs, D50, Qw, S, ratio, ratioFrom, op, ret, threw,
          state, PlanView, ScaleView, window, ev>>

\* sizes of the containers of the two views (getBoundingClientRect), in
\* this order
ContainerSamples ==
    <<[plan |-> [width |-> 600, height |-> 160], scale |-> [width |-> 500, height |-> 280]],
      [plan |-> [width |-> 400, height |-> 120], scale |-> [width |-> 340, height |-> 200]],
      [plan |-> [width |-> 0, height |-> 0], scale |-> [width |-> 0, height |-> 0]],
      [plan |-> [width |-> 900, height |-> 200], scale |-> [width |-> 700, height |-> 320]]>>
NumContainerSamples == 1
ContainerRects ==
    {ContainerSamples[i] : i \in 1..Min(NumContainerSamples, Len(ContainerSamples))}

\* the state object as the script defines it; previousState: {} has no
\* parameter values yet, written 0
StateObject ==
    [Qs |-> 50, D50 |-> 50, Qw |-> 50, S |-> 50, balanceRatio |-> RatioScale,
     lastChanged |-> "null",
     previousState |-> [Qs |-> 0, D50 |-> 0, Qw |-> 0, S |-> 0]]

\* init: debounce(handleResize, 250), in ms
DebounceWait == 250

\* time passes in steps of DebounceWait / ElapseSteps (rounded up)
ElapseSteps == 2
TimeStep == (DebounceWait + ElapseSteps - 1) \div ElapseSteps

\* the timer not started: it is due at once
setTimeout_AtOnce(wait) == 0

\* setTimeout(later, wait): the time left until the timer is due
setTimeout(wait) == wait

\* the page before init() runs: no listener bound, no timer, no animation
\* frame requested.  timeout tells whether the timer of debounce is set and
\* timer how long it has to run; sinceResize is the time passed since
\* resizeHandler was last called (no longer counted from DebounceWait on).
\* tornDown is set by cleanup() and holds until the page handles the next
\* event of the user.
WindowObject ==
    [loaded |-> FALSE, resizeListener |-> FALSE, timeout |-> FALSE,
     timer |-> 0, sinceResize |-> DebounceWait,
     frames |-> {}, rect |-> ContainerSamples[1], tornDown |-> FALSE]

NoEvent == [name |-> "none", redraw |-> FALSE, tick |-> FALSE]

Event(name, redraw, tick) == [name |-> name, redraw |-> redraw, tick |-> tick]

InitPage ==
    /\ state = StateObject
    /\ PlanView = PlanViewObject
    /\ ScaleView = ScaleViewObject
    /\ window = WindowObject
    /\ ev = NoEvent

\* slider values tried, in this order
ParamSamples == <<50, 100, 10, 60, 15, 1, 30, 14>>
NumParamSamples == 2
ParamValues == {ParamSamples[i] : i \in 1..Min(NumParamSamples, Len(ParamSamples))}

\* values outside the range 1-100 the parameters are documented with, which
\* a caller can pass all the same, in this order
OutOfRangeSamples == <<0, 101, 102, 103>>
NumOutOfRangeSamples == 2
OutOfRangeValues ==
    {OutOfRangeSamples[i] : i \in 1..Min(NumOutOfRangeSamples, Len(OutOfRangeSamples))}

\* parameter sets <<Qs, D50, Qw, S>> with a discharge Qw/100 below 0.15
LowDischargeSets == {<<50, 50, 10, 50>>, <<50, 10, 10, 50>>, <<10, 10, 10, 50>>}

\* the parameter sets of a call: every combination of the slider values,
\* the sets at low discharge, and the default set with one parameter
\* replaced by a value out of range
ParamSets ==
    (ParamValues \X ParamValues \X ParamValues \X ParamValues)
    \cup LowDischargeSets
    \cup {[<<50, 50, 50, 50>> EXCEPT ![k] = v] :
              k \in 1..4, v \in OutOfRangeValues}

\* ratios handed in by a caller (at RatioScale), in this order: the values
\* on both sides of every threshold of the code, the extremes and Infinity
RatioSamples ==
    <<10000, 9999, 10001, Infinity, 0, 100, 1000, 1001, 4999, 5000,
      8912, 8913, 11220, 11221, 15000, 15001, 20000, 20001,
      99999, 100000, 1000000, 628693575,
      50, 1, 999, 100001, 3000, 50000, 7000>>
NumRatioSamples == 23
RatioInputs == {RatioSamples[i] : i \in 1..Min(NumRatioSamples, Len(RatioSamples))}

InitBalance ==
    /\ \E p \in ParamSets : Qs = p[1] /\ D50 = p[2] /\ Qw = p[3] /\ S = p[4]
    /\ ratio \in RatioInputs
    /\ ratioFrom = "caller"
    /\ op = "none"
    /\ ret = 0
    /\ threw = FALSE
    /\ InitPage

CalculateRatio ==
    /\ ratio' = calculateRatio(Qs, D50, Qw, S)
    /\ ratioFrom' = "calculateRatio"
    /\ op' = "calculateRatio"
    /\ ret' = ratio'
    /\ threw' = FALSE
    /\ UNCHANGED <<Qs, D50, Qw, S>>
    /\ UNCHANGED appVars

Call(name, value) ==
    /\ op' = name
    /\ ret' = value
    /\ threw' = FALSE
    /\ UNCHANGED <<Qs, D50, Qw, S, ratio, ratioFrom>>
    /\ UNCHANGED appVars

MapD50 == Call("mapD50", mapD50(D50))

GetState == Call("getState", getState(ratio))

GetImbalanceIndex == Call("getImbalanceIndex", getImbalanceIndex(ratio))

CalculateTiltAngle == Call("calculateTiltAngle", calculateTiltAngle(ratio))

CalculateStreamPower == Call("calculateStreamPower", calculateStreamPower(Qw, S))

GetChannelPattern ==
    Call("getChannelPattern", getChannelPattern(Qs, D50, Qw, S, ratio))

GetActiveProcesses ==
    Call("getActiveProcesses", getActiveProcesses(ratio, Qw, S))

ComputeSeed == Call("computeSeed", computeSeed(Qs, D50, Qw, S, ratio))

FormatSlope == Call("formatSlope", formatSlope(S))

NextBalance ==
    \/ CalculateRatio
    \/ MapD50
    \/ GetState
    \/ GetImbalanceIndex
    \/ CalculateTiltAngle
    \/ CalculateStreamPower
    \/ GetChannelPattern
    \/ GetActiveProcesses
    \/ ComputeSeed
    \/ FormatSlope

SpecBalance == InitBalance /\ [][NextBalance]_vars

(***************************************************************************)
(* The application (balance.js, from "Main Application" on).  Each action  *)
(* is one handler run to its end: init() on DOMContentLoaded, the input    *)
(* listener of a slider, the click listener of the reset button, the       *)
(* debounced resize listener, the timer it sets (which runs handleResize   *)
(* when it is due), a callback of requestAnimationFrame, and cleanup() on  *)
(* beforeunload; Elapse is the passing of time while the timer runs.       *)
(* The process list and the tendency text are not part of the state.       *)
(***************************************************************************)

\* slider inputs tried, in this order: the state key of the slider and the
\* value it is moved to
InputSamples ==
    <<<<"Qs", 100>>, <<"Qw", 100>>, <<"Qs", 51>>, <<"Qw", 10>>, <<"Qs", 10>>,
      <<"D50", 51>>, <<"S", 52>>, <<"Qw", 39>>, <<"D50", 100>>, <<"S", 1>>>>
NumInputSamples == 4
Inputs == {InputSamples[i] : i \in 1..Min(NumInputSamples, Len(InputSamples))}

\* const params of updateAll and handleResize
Params(st) == [Qs |-> st.Qs, D50 |-> st.D50, Qw |-> st.Qw, S |-> st.S]

\* nothing updated
updateAll_Nothing(st, sv, pv, frames) ==
    [state   |-> st, sv |-> sv,
     updated |-> [plan |-> [pv |-> pv, frames |-> frames], redraw |-> FALSE]]

\* updateAll(): the state, the scale view, and what PlanView.update leaves
\* (the plan view with the pending animation frames, and whether the
\* channel was redrawn)
updateAll(st, sv, pv, frames) ==
    LET balanceRatio == calculateRatio(st.Qs, st.D50, st.Qw, st.S)
    IN  [state   |-> [st EXCEPT !.balanceRatio = balanceRatio,
                                !.previousState = Params(st)],
         sv      |-> ScaleViewUpdate(sv, balanceRatio, Params(st)),
         updated |-> PlanViewUpdate(pv, frames, st.Qs, st.D50, st.Qw, st.S,
                                    balanceRatio)]

\* handleResize from PlanView.update on, created being what PlanView.init
\* has left
Resized(st, sv, created, rect) ==
    [sv      |-> ScaleViewUpdate(ScaleViewInit(sv, rect.scale),
                                 st.balanceRatio, Params(st)),
     updated |-> PlanViewUpdate(created.pv, created.frames,
                                st.Qs, st.D50, st.Qw, st.S, st.balanceRatio)]

\* handleResize() with the containers at the sizes rect
handleResize(st, sv, pv, frames, rect) ==
    LET stopped == stopFlowAnimation(pv, frames)
    IN  Resized(st, sv, PlanViewInit(stopped.pv, stopped.frames, rect.plan), rect)

\* init() on DOMContentLoaded
init ==
    /\ ~window.loaded
    /\ \E created \in {PlanViewInit(PlanView, window.frames, window.rect.plan)} :
       \E all \in {updateAll([state EXCEPT !.previousState = Params(state)],
                             ScaleViewInit(ScaleView, window.rect.scale),
                             created.pv, created.frames)} :
           /\ state' = all.state
           /\ ScaleView' = all.sv
           /\ PlanView' = all.updated.plan.pv
           /\ window' = [window EXCEPT !.loaded = TRUE, !.resizeListener = TRUE,
                                       !.frames = all.updated.plan.frames]
           /\ ev' = Event("init", all.updated.redraw, FALSE)
    /\ UNCHANGED balanceVars

\* what a handler that ends with updateAll() leaves, given the state object
\* it has written
Updated(name, st) ==
    \E all \in {updateAll(st, ScaleView, PlanView, window.frames)} :
        /\ state' = all.state
        /\ ScaleView' = all.sv
        /\ PlanView' = all.updated.plan.pv
        /\ window' = [window EXCEPT !.frames = all.updated.plan.frames,
                                    !.tornDown = FALSE]
        /\ ev' = Event(name, all.updated.redraw, FALSE)
        /\ UNCHANGED balanceVars

\* the input listener of the slider of stateKey, moved to value
SliderInput ==
    /\ window.loaded
    /\ \E input \in Inputs :
           Updated("input", [state EXCEPT !.lastChanged = input[1],
                                          ![input[1]] = input[2]])

\* resetToEquilibrium(), the click listener of the reset button
resetToEquilibrium ==
    /\ window.loaded
    /\ Updated("reset", [state EXCEPT !.Qs = 50, !.D50 = 50, !.Qw = 50, !.S = 50,
                                      !.lastChanged = "null"])

\* the window is resized: the containers get a size, and resizeHandler, the
\* debounced handleResize, runs if it is still registered: it clears the
\* timer it had set and sets a new one
Resize ==
    /\ window.loaded
    /\ \E rect \in ContainerRects :
           window' = IF window.resizeListener
                     THEN [window EXCEPT !.rect = rect, !.timeout = TRUE,
                                         !.timer = setTimeout(DebounceWait),
                                         !.sinceResize = 0]
                     ELSE [window EXCEPT !.rect = rect]
    /\ ev' = Event("resize", FALSE, FALSE)
    /\ UNCHANGED <<state, PlanView, ScaleView>>
    /\ UNCHANGED balanceVars

\* time passes while the timer of debounce runs
Elapse ==
    /\ window.timeout /\ window.timer > 0
    /\ window' = [window EXCEPT
                     !.timer = Max(0, @ - TimeStep),
                     !.sinceResize = Min(DebounceWait, @ + TimeStep)]
    /\ ev' = Event("elapse", FALSE, FALSE)
    /\ UNCHANGED <<state, PlanView, ScaleView>>
    /\ UNCHANGED balanceVars

\* later(), the callback of the timer of debounce, which is due:
\* handleResize()
later ==
    /\ window.timeout /\ window.timer = 0
    /\ \E resized \in {handleResize(state, ScaleView, PlanView,
                                     window.frames, window.rect)} :
           /\ ScaleView' = resized.sv
           /\ PlanView' = resized.updated.plan.pv
           /\ window' = [window EXCEPT !.timeout = FALSE,
                                       !.frames = resized.updated.plan.frames]
           /\ ev' = Event("handleResize", resized.updated.redraw, FALSE)
    /\ UNCHANGED state
    /\ UNCHANGED balanceVars

\* calls of updateFlowAnimation followed after a startFlowAnimation
MaxTicks == 1

\* step(timestamp), the callback of a pending animation frame; tick tells
\* whether 50 ms have passed since the last call of updateFlowAnimation
step ==
    /\ \E id \in window.frames, tick \in BOOLEAN :
           LET pending == window.frames \ {id}
           IN  IF ~PlanView.flowAnimationRunning
               THEN /\ ~tick
                    /\ window' = [window EXCEPT !.frames = pending]
                    /\ ev' = Event("frame", FALSE, FALSE)
                    /\ UNCHANGED PlanView
               ELSE LET next == RequestId([PlanView EXCEPT !.flowAnimationId = 0], pending)
                    IN  /\ tick => PlanView.flowTicks < MaxTicks
                        /\ PlanView' =
                               IF tick
                               THEN [PlanView EXCEPT
                                        !.flowAnimationId = next,
                                        !.flowTicks = @ + 1,
                                        !.flowElements = updateFlowAnimation(@)]
                               ELSE [PlanView EXCEPT !.flowAnimationId = next]
                        /\ window' = [window EXCEPT !.frames = pending \cup {next}]
                        /\ ev' = Event("frame", FALSE, tick)
    /\ UNCHANGED <<state, ScaleView>>
    /\ UNCHANGED balanceVars

\* cleanup() on beforeunload
cleanup ==
    /\ window.loaded
    /\ \E stopped \in {stopFlowAnimation(PlanView, window.frames)} :
           /\ PlanView' = stopped.pv
           /\ window' = [window EXCEPT !.resizeListener = FALSE,
                                       !.frames = stopped.frames,
                                       !.tornDown = TRUE]
    /\ ev' = Event("cleanup", FALSE, FALSE)
    /\ UNCHANGED <<state, ScaleView>>
    /\ UNCHANGED balanceVars

InitApp ==
    /\ Qs = 50 /\ D50 = 50 /\ Qw = 50 /\ S = 50
    /\ ratio = RatioScale
    /\ ratioFrom = "caller"
    /\ op = "none"
    /\ ret = 0
    /\ threw = FALSE
    /\ InitPage

NextApp ==
    \/ init
    \/ SliderInput
    \/ resetToEquilibrium
    \/ Resize
    \/ Elapse
    \/ later
    \/ step
    \/ cleanup

SpecApp == InitApp /\ [][NextApp]_vars

\* later is enabled when a timer is due, and running it leaves no timer
TimerDue == window.timeout /\ window.timer = 0

\* the page with a browser in which time passes (weak fairness of Elapse), and a timer that is due is run
\* (weak fairness of later, written with its enabling condition TimerDue:
\* later ends TimerDue, so that it is not enabled for ever exactly when it
\* runs)
SpecAppLive ==
    /\ SpecApp
    /\ WF_vars(Elapse)
    /\ []<>(~TimerDue)

(***************************************************************************)
(* Properties.                                                             *)
(***************************************************************************)

\* the slider domain of the four parameters
SliderMin == 1
SliderMax == 100
Domain == SliderMin..SliderMax

Names(processes) == [i \in 1..Len(processes) |-> processes[i].name]

AtDefaults == Qs = 50 /\ D50 = 50 /\ Qw = 50 /\ S = 50

Calculated == ratioFrom = "calculateRatio"

\* C1: for Qs = D50 = Qw = S = 50, getState of the ratio calculateRatio
\* returned is equilibrium and getChannelPattern of these parameters and
\* that ratio is meandering.
C1_DefaultsEquilibriumMeandering ==
    (AtDefaults /\ Calculated) =>
        /\ (op = "getState" => ret = "equilibrium")
        /\ (op = "getChannelPattern" => ret = "meandering")

C1_Witness ==
    /\ AtDefaults /\ Calculated
    /\ op = "getChannelPattern" /\ ret = "meandering"
    /\ getState(ratio) = "equilibrium"

\* log10(clamp(ratio, 0.01, 100)) at LogScale, as the claims state it
ClampedLog10(r) == Log10(Max(RatioScale \div 100, Min(100 * RatioScale, r)))

\* C2: getState returns exactly one regime: degradation iff
\* log10(clamp(ratio, 0.01, 100)) < -0.05, aggradation iff it is > 0.05,
\* equilibrium otherwise (-0.05 and +0.05 themselves included).
C2_GetStateTrichotomy ==
    op = "getState" =>
        LET index == ClampedLog10(ratio)
        IN  /\ ret \in {"degradation", "equilibrium", "aggradation"}
            /\ (ret = "degradation") <=> (index < -(LogScale \div 20))
            /\ (ret = "aggradation") <=> (index > LogScale \div 20)
            /\ (ret = "equilibrium") <=>
                   (index >= -(LogScale \div 20) /\ index <= LogScale \div 20)

\* a ratio other than 1 just inside the band (0.8913: index -0.049976)
C2_Witness ==
    /\ op = "getState" /\ ret = "equilibrium"
    /\ ratio # RatioScale
    /\ getState(ratio - 1) = "degradation"

\* C3: calculateRatio never decreases when Qs alone increases and never
\* increases when Qw alone increases, over the whole domain 1..100.
C3_RatioMonotone ==
    op = "calculateRatio" =>
        /\ \A q \in Domain : q > Qs => calculateRatio(q, D50, Qw, S) >= ret
        /\ \A q \in Domain : q > Qw => calculateRatio(Qs, D50, q, S) <= ret

C3_Witness ==
    /\ op = "calculateRatio"
    /\ \E q \in Domain : q > Qs /\ calculateRatio(q, D50, Qw, S) > ret
    /\ \E q \in Domain : q > Qw /\ calculateRatio(Qs, D50, q, S) < ret

\* 0.35 Qs/100 + 0.25 D50/100 + aggradationFactor in units of 10^-5, with
\* aggradationFactor = 0 for ratio <= 1 and min((ratio - 1) 0.3, 0.3) above
StatedBraidingIndex(qs, d50, r) ==
    350 * qs + 250 * d50
    + (IF r <= RatioScale THEN 0
       ELSE IF r = Infinity THEN 30000
       ELSE Min(3 * (r - RatioScale), 30000))

\* C4: getChannelPattern returns braided whenever the braiding index exceeds
\* 0.5 (even when Qw/100 < 0.15), otherwise straight whenever Qw/100 < 0.15,
\* otherwise meandering.
C4_PatternFirstMatch ==
    op = "getChannelPattern" =>
        ret = IF StatedBraidingIndex(Qs, D50, ratio) > 50000 THEN "braided"
              ELSE IF Qw < 15 THEN "straight"
              ELSE "meandering"

\* braided although the discharge is below 0.15
C4_Witness ==
    /\ op = "getChannelPattern" /\ ret = "braided"
    /\ Qw < 15

\* C5 as stated: with Qw = 10 and Qs = D50 = S = 50, getChannelPattern of the
\* ratio calculateRatio returned is straight.
C5_Original ==
    (Qs = 50 /\ D50 = 50 /\ Qw = 10 /\ S = 50 /\ Calculated
     /\ op = "getChannelPattern") => ret = "straight"

\* C5, amended: with Qw = 10 and Qs = D50 = S = 50 the calculated ratio is
\* above 2, the aggradation factor is at its cap and the result is braided;
\* with Qw = 10 the result is straight whenever the braiding index of the
\* calculated ratio does not exceed 0.5.
C5_LowDischargeAmended ==
    (Qw = 10 /\ Calculated /\ op = "getChannelPattern") =>
        /\ (Qs = 50 /\ D50 = 50 /\ S = 50) =>
               (ratio > 2 * RatioScale /\ ret = "braided")
        /\ StatedBraidingIndex(Qs, D50, ratio) <= 50000 => ret = "straight"

C5_Witness ==
    /\ Qs = 50 /\ D50 = 50 /\ Qw = 10 /\ S = 50 /\ Calculated
    /\ op = "getChannelPattern" /\ ret = "braided"

\* C6: with Qs = 100, D50 = 100, Qw = 50, S = 50 and the calculated ratio,
\* the braiding index exceeds 0.5 and getChannelPattern returns braided.
C6_HighLoadBraided ==
    (Qs = 100 /\ D50 = 100 /\ Qw = 50 /\ S = 50 /\ Calculated
     /\ op = "getChannelPattern") =>
        /\ braidingIndex(Qs, D50, ratio) > TermScale \div 2
        /\ ret = "braided"

C6_Witness ==
    /\ Qs = 100 /\ D50 = 100 /\ Qw = 50 /\ S = 50 /\ Calculated
    /\ op = "getChannelPattern" /\ ret = "braided"

\* C7: for a ratio whose regime is equilibrium, getActiveProcesses returns
\* exactly 'Sediment transport balance' then 'Dynamic equilibrium', whatever
\* Qw and S.
C7_EquilibriumProcesses ==
    (op = "getActiveProcesses" /\ getState(ratio) = "equilibrium") =>
        Names(ret) = <<"Sediment transport balance", "Dynamic equilibrium">>

\* at a stream power above 0.5, which adds items in the degradation regime
C7_Witness ==
    /\ op = "getActiveProcesses" /\ getState(ratio) = "equilibrium"
    /\ Qw * S > 5000
    /\ Len(ret) = 2

\* C8: for a ratio whose regime is degradation, getActiveProcesses returns
\* 'Bed incision', then 'Bank erosion' iff Qw*S/10000 > 0.3, then
\* 'Knickpoint migration' iff Qw*S/10000 > 0.5, then 'Bed armoring' iff
\* ratio < 0.5, every item tagged degradation.
C8_DegradationProcesses ==
    (op = "getActiveProcesses" /\ getState(ratio) = "degradation") =>
        /\ Names(ret) =
               <<"Bed incision">>
               \o (IF Qw * S > 3000 THEN <<"Bank erosion">> ELSE <<>>)
               \o (IF Qw * S > 5000 THEN <<"Knickpoint migration">> ELSE <<>>)
               \o (IF ratio < RatioScale \div 2 THEN <<"Bed armoring">> ELSE <<>>)
        /\ \A i \in 1..Len(ret) : ret[i].type = "degradation"

\* a stream power of exactly 0.5: bank erosion without knickpoint migration
C8_Witness ==
    /\ op = "getActiveProcesses" /\ getState(ratio) = "degradation"
    /\ Qw * S = 5000
    /\ Names(ret) = <<"Bed incision", "Bank erosion", "Bed armoring">>

\* C9: for a ratio whose regime is aggradation, getActiveProcesses returns
\* 'Bar formation' first and 'Overbank deposition' last, with 'Channel
\* widening' iff ratio > 1.5 and then 'Avulsion risk' iff ratio > 2 between
\* them, every item tagged aggradation, whatever Qw and S.
C9_AggradationProcesses ==
    (op = "getActiveProcesses" /\ getState(ratio) = "aggradation") =>
        /\ Names(ret) =
               <<"Bar formation">>
               \o (IF ratio > (3 * RatioScale) \div 2
                   THEN <<"Channel widening">> ELSE <<>>)
               \o (IF ratio > 2 * RatioScale THEN <<"Avulsion risk">> ELSE <<>>)
               \o <<"Overbank deposition">>
        /\ \A i \in 1..Len(ret) : ret[i].type = "aggradation"

\* a ratio of exactly 2: channel widening without avulsion risk
C9_Witness ==
    /\ op = "getActiveProcesses" /\ getState(ratio) = "aggradation"
    /\ ratio = 2 * RatioScale
    /\ Names(ret) = <<"Bar formation", "Channel widening", "Overbank deposition">>

\* C10: calculateTiltAngle returns +30 for every ratio <= 0.1 and -30 for
\* every ratio >= 10 (Infinity included), always lies in [-30, 30], is
\* negative for ratio > 1, positive for ratio < 1 and 0 for ratio = 1.
C10_TiltSaturates ==
    op = "calculateTiltAngle" =>
        /\ ratio <= RatioScale \div 10 => ret = 30 * RatioScale
        /\ (ratio = Infinity \/ ratio >= 10 * RatioScale) => ret = -30 * RatioScale
        /\ ret >= -30 * RatioScale /\ ret <= 30 * RatioScale
        /\ ratio > RatioScale => ret < 0
        /\ ratio < RatioScale => ret > 0
        /\ ratio = RatioScale => ret = 0

C10_Witness ==
    /\ op = "calculateTiltAngle"
    /\ ratio = Infinity
    /\ ret = -30 * RatioScale

\* 1/r at RatioScale, rounded to nearest, and whether it is exact
Reciprocal(r) == MulDivRound(RatioScale, RatioScale, r)
ExactReciprocal(r) == (RatioScale * RatioScale) % r = 0

\* the tolerance of a comparison of two logarithms: 10^-5
LogTolerance == LogScale \div 10^5

\* C11: for every r in (0, 100], getImbalanceIndex(r) is the negation of
\* getImbalanceIndex(1/r) within tolerance, also for r below 0.01 where both
\* sides are clamped (-2 and 2); the index always lies in [-2, 2].  (1/r is
\* taken where it is exact at 4 decimals, or where it is clamped anyway.)
C11_IndexAntisymmetric ==
    op = "getImbalanceIndex" =>
        /\ ret >= -2 * LogScale /\ ret <= 2 * LogScale
        /\ (ratio > 0 /\ ratio <= 100 * RatioScale
            /\ (ExactReciprocal(ratio) \/ ratio < RatioScale \div 100)) =>
               Abs(ret + getImbalanceIndex(Reciprocal(ratio))) <= LogTolerance

\* below 0.01: both sides clamped
C11_Witness ==
    /\ op = "getImbalanceIndex"
    /\ ratio > 0 /\ ratio < RatioScale \div 100
    /\ ret = -2 * LogScale
    /\ getImbalanceIndex(Reciprocal(ratio)) = 2 * LogScale

\* C12: mapD50 is strictly increasing on 1..100, every value it returns
\* there lies in [0.1, 100], mapD50(1) = 0.1 and mapD50(100) = 100.
C12_MapD50IncreasingBounded ==
    (op = "mapD50" /\ D50 \in Domain) =>
        LET mapped == [v \in Domain |-> mapD50(v)]
        IN  /\ ret = mapped[D50]
            /\ ret >= TermScale \div 10 /\ ret <= 100 * TermScale
            /\ \A v \in Domain : v < SliderMax => mapped[v] < mapped[v + 1]
            /\ mapped[SliderMin] = TermScale \div 10
            /\ mapped[SliderMax] = 100 * TermScale

C12_Witness ==
    /\ op = "mapD50"
    /\ D50 = SliderMax /\ ret = 100 * TermScale
    /\ mapD50(SliderMax - 1) < ret

Patterns == {"straight", "meandering", "braided"}

\* C13: when Qw * mapSlope(S) is exactly zero, calculateRatio returns
\* Infinity, and every downstream operation accepts that ratio: getState
\* gives aggradation, getImbalanceIndex 2, calculateTiltAngle -30,
\* getChannelPattern a pattern and computeSeed a finite seed (its ratio key
\* at the cap 999).
C13_ZeroWaterTermInfinity ==
    (Qw * mapSlope(S) = 0 /\ Calculated) =>
        /\ ratio = Infinity
        /\ ~threw
        /\ op = "getState" => ret = "aggradation"
        /\ op = "getImbalanceIndex" => ret = 2 * LogScale
        /\ op = "calculateTiltAngle" => ret = -30 * RatioScale
        /\ op = "getChannelPattern" => ret \in Patterns
        /\ op = "computeSeed" =>
               /\ ret.hi = Qs * 1000 + D50 /\ ret.lo = Qw * 1000 + S
               /\ ret.frac \div 10^6 = 999

C13_Witness ==
    /\ Qw = 0 /\ Calculated /\ ratio = Infinity
    /\ op = "computeSeed" /\ ret.frac \div 10^6 = 999
    /\ getState(ratio) = "aggradation"
    /\ getChannelPattern(Qs, D50, Qw, S, ratio) = "braided"

InDomain == Qs \in Domain /\ D50 \in Domain /\ Qw \in Domain /\ S \in Domain

\* C14 as stated: a call of calculateRatio, getChannelPattern or
\* getActiveProcesses with a parameter outside [1, 100] ends with an error
\* instead of a result.  (The code has no check of its parameters: the call
\* returns a result computed from them.)
C14_Original ==
    (op \in {"calculateRatio", "getChannelPattern", "getActiveProcesses"}
     /\ ~InDomain) => threw

\* the (Qw, S) pairs on the lines through a point of the domain and through
\* its corners, and on its diagonal
DischargeSlopeLines(qw0, s0) ==
    {<<qw, s>> : qw \in Domain, s \in {SliderMin, s0, SliderMax}}
    \cup {<<qw, s>> : qw \in {SliderMin, qw0, SliderMax}, s \in Domain}
    \cup {<<v, v>> : v \in Domain}

UpdateEvents == {"init", "input", "reset", "handleResize"}

\* the channel geometry generated for the parameters of the state object,
\* the seed computed from them and the size of the view
GeneratedGeometry ==
    DrawPattern(<<>>,
                getChannelPattern(state.Qs, state.D50, state.Qw, state.S,
                                  state.balanceRatio),
                state.Qs, state.D50, state.Qw,
                computeSeed(state.Qs, state.D50, state.Qw, state.S, state.balanceRatio),
                PlanView.width, PlanView.height)

\* the drawing PlanView.init makes, for the seed the view holds
DefaultGeometry(currentSeed) ==
    drawMeandering(<<>>, 50, InitialSinuosity, 50, 50, currentSeed,
                   PlanView.width, PlanView.height)

C16_Original ==
    (ev.name \in UpdateEvents /\ PlanView.svg) =>
        PlanView.channelGroup = GeneratedGeometry

\* C17 as stated: once cleanup() has run, no animation frame of the flow
\* animation is pending and no tick of it runs, as long as the user does
\* nothing more.  (cleanup leaves the timer of the debounced resize
\* listener, whose handleResize starts the animation again.)
C17_Original ==
    window.tornDown =>
        /\ window.frames = {}
        /\ ~(ev.name = "frame" /\ ev.tick)

\* C18 as stated: in a drawn frame, elements of different features draw
\* from disjoint sub-seeds.  (Bar i + 3 of addMidChannelBars starts at
\* seedBase + 37 * (i + 3), which is the seed of the second gravel circle
\* of bar i, seedBase + 37 * i + 100 + 11.)
C18_Original ==
    PlanView.svg =>
        LET group == PlanView.channelGroup
            used  == [n \in 1..Len(group) |-> SubSeeds(group[n])]
        IN  \A m \in 1..Len(group), n \in 1..Len(group) :
                (m < n /\ group[m].feature # group[n].feature) =>
                    used[m] \cap used[n] = {}

\* C20 as stated: a meandering channel drawn with a sinuosity below 1.2 has
\* no point bar, and one drawn with a sinuosity of 1.2 or more has a point
\* bar at every sample of its centre line that is a local maximum or
\* minimum.  (addPointBars tests the samples 10, 35, 60 and 85 only, each
\* against the samples 5 before and after it.)
C20_Original ==
    (/\ PlanView.svg
     /\ PlanView.channelGroup[1].class = "channel-bank"
     /\ PlanView.channelGroup[1].d.curve = "meander") =>
        LET group     == PlanView.channelGroup
            sinuosity == group[1].d.amplitude \div 25
            points    == generateMeanderingPath(50, sinuosity, PlanView.width,
                                                PlanView.height).points
            bars      == {n \in 1..Len(group) : group[n].class = "channel-bar point-bar"}
        IN  /\ sinuosity < Dec(12, 10, PxScale) => bars = {}
            /\ sinuosity >= Dec(12, 10, PxScale) =>
                   \A i \in 1..(MeanderSteps - 1) :
                       IsExtremum(points, i, 1) =>
                           \E n \in bars : group[n].cx = points[i].x

\* the ellipses of a sediment group lie at non-increasing cy in document
\* order (y grows downwards: the lowest rock comes first)
BackToFront(group) ==
    \A n \in 1..(Len(group) - 1) : group[n].cy >= group[n + 1].cy

\* C21: the rocks updateRocks appends have non-increasing y in the order they
\* are appended: in the sediment group of the scale view whenever it is
\* drawn, and (evaluated once, when init has run) for every Qs and D50 in
\* [1, 100]
C21_RocksBackToFront ==
    /\ ScaleView.svg => BackToFront(ScaleView.sedimentGroup)
    /\ ev.name = "init" =>
           \A qs, d50 \in Domain : BackToFront(updateRocks(<<>>, qs, d50))

\* a pile of 12 rocks is drawn by a slider input, and the rocks were not
\* created in the order they are drawn in
C21_Witness ==
    /\ ev.name = "input" /\ ScaleView.svg
    /\ ScaleView.sedimentGroup = updateRocks(<<>>, state.Qs, state.D50)
    /\ Len(ScaleView.sedimentGroup) = 12
    /\ \E n \in 1..11 : Rocks(state.Qs, state.D50)[n].y
                            < Rocks(state.Qs, state.D50)[n + 1].y

\* every sample of the channel of channelSeed lies between the bounds of the
\* corridor, and the lower bound is not above the upper one
InCorridor(channelSeed, qw, width, height) ==
    LET low    == CenterY(height) - BraidplainWidth(qw) \div 2
                  + BraidedChannelWidth(qw, channelSeed)
        high   == CenterY(height) + BraidplainWidth(qw) \div 2
                  - BraidedChannelWidth(qw, channelSeed)
        points == BraidedChannelPoints(channelSeed, qw, width, height)
    IN  /\ low <= high
        /\ \A i \in 0..BraidedSteps : low <= points[i].y /\ points[i].y <= high

\* the seed of channel c of the braided drawing of (50, 50, Qw, 50) with a
\* ratio key of 0
ThreadSeed(qw, c) == SeedPlus(Seed(50050, qw * 1000 + 50, 0), 2000 + c * 97)

\* C22: every sample of every thread of a braided drawing lies in the
\* corridor centerY -+ (totalWidth/2 - channelWidth), whose lower bound is not
\* above its upper bound: for the threads of the channel group when it has
\* been redrawn, and (evaluated once, when init has run) for the
\* 3 + floor(Qw/25) threads of every Qw in [1, 100]
C22_ThreadsInCorridor ==
    /\ ev.redraw =>
           \A n \in 1..Len(PlanView.channelGroup) :
               PlanView.channelGroup[n].class = "braided-channel" =>
                   InCorridor(PlanView.channelGroup[n].seed, PlanView.lastQw,
                              PlanView.width, PlanView.height)
    /\ ev.name = "init" =>
           \A qw \in Domain : \A c \in 0..(2 + qw \div 25) :
               InCorridor(ThreadSeed(qw, c), qw, PlanView.width, PlanView.height)

\* a braided channel has been drawn, and a sample of one of its threads
\* would lie outside the corridor were it not kept within the bounds
C22_Witness ==
    /\ ev.redraw /\ PlanView.currentPattern = "braided"
    /\ \E n \in 1..Len(PlanView.channelGroup) :
           /\ PlanView.channelGroup[n].class = "braided-channel"
           /\ LET seed   == PlanView.channelGroup[n].seed
                  qw     == PlanView.lastQw
                  points == BraidedChannelPoints(seed, qw, PlanView.width,
                                                 PlanView.height)
                  high   == CenterY(PlanView.height) + BraidplainWidth(qw) \div 2
                            - BraidedChannelWidth(qw, seed)
              IN  \E i \in 0..BraidedSteps :
                      /\ points[i].y = high
                      /\ BraidedSampleY(i, seed, CenterY(PlanView.height),
                             MulPx(pseudoRandom(SeedPlus(seed, 1)) - PxScale \div 2,
                                   (BraidplainWidth(qw) * 7) \div 10),
                             2 * PxScale + 2 * pseudoRandom(SeedPlus(seed, 2)),
                             8 * PxScale + 12 * pseudoRandom(SeedPlus(seed, 3))) > high

\* the plan view shows the channel of the pattern and the parameters of the
\* state
PlanShowsState ==
    PlanView.channelGroup =
        DrawPattern(<<>>, getChannelPattern(state.Qs, state.D50, state.Qw, state.S,
                                            state.balanceRatio),
                    state.Qs, state.D50, state.Qw, PlanView.currentSeed,
                    PlanView.width, PlanView.height)

\* the scale view shows the rocks, the water and the pan positions of the
\* parameters of the state
ScaleShowsState ==
    LET beamLength == (ScaleView.width * PxScale * 72) \div 100
    IN  /\ ScaleView.sedimentGroup = updateRocks(<<>>, state.Qs, state.D50)
        /\ ScaleView.waterGroup = updateWater(<<>>, state.Qw, state.S)
        /\ ScaleView.leftX = getPanPosition(state.D50, TRUE, beamLength)
        /\ ScaleView.rightX = getPanPosition(state.S, FALSE, beamLength)

\* C23 as stated: when handleResize has run, the plan view shows the channel
\* of the current pattern and parameters and the scale view shows the rocks,
\* the water and the pans of the current parameters.  (PlanView.init and
\* ScaleView.init draw the defaults and keep currentPattern, lastQs .. lastS
\* and currentParams, so the update() that follows finds nothing changed.)
C23_Original ==
    ev.name = "handleResize" => PlanShowsState /\ ScaleShowsState

\* C24 as stated: for a slider value in 1..100, formatSlope returns the
\* formatted value of mapSlope.  (formatSlope formats 10^(-1 + 3 (v - 1)/99),
\* the mapping of mapD50; mapSlope is 0.1 + 5.906 v/100.)
C24_Original ==
    (op = "formatSlope" /\ S \in Domain) => ret = Formatted(mapSlope(S))

\* C25: a burst of resize events, each less than 250 ms after the one
\* before, runs handleResize once, 250 ms after the last of them and not
\* before: when handleResize has run, DebounceWait has passed since
\* resizeHandler was last called and no timer is left; a timer that is set is
\* given up only by handleResize running; a call of resizeHandler sets the
\* timer to the full DebounceWait, whatever was left of it; and unless
\* resize events keep arriving, there comes a time after which no timer is
\* left
C25_DebounceCoalesces ==
    /\ [](ev.name = "handleResize" =>
              window.sinceResize >= DebounceWait /\ ~window.timeout)
    /\ [][(window.timeout /\ ~window.timeout') => ev'.name = "handleResize"]_vars
    /\ [][(ev'.name = "resize" /\ window.resizeListener) =>
              window.timeout' /\ window.timer' = DebounceWait]_vars
    /\ \/ []<>(ev.name = "resize" /\ window.timeout)
       \/ <>[](~window.timeout)

\* handleResize has run, DebounceWait after the last resize event
C25_Witness ==
    /\ ev.name = "handleResize" /\ window.sinceResize = DebounceWait
    /\ ~window.timeout /\ window.resizeListener

\* C26: at most one loop of the flow animation exists: at most one animation
\* frame of it is pending, and while flowAnimationRunning is true
\* flowAnimationId is the id of that frame
C26_OneAnimationLoop ==
    /\ Cardinality(window.frames) <= 1
    /\ PlanView.flowAnimationRunning => PlanView.flowAnimationId \in window.frames

\* an update has redrawn the channel, stopping the animation and starting it
\* again
C26_Witness ==
    /\ ev.name = "input" /\ ev.redraw
    /\ PlanView.flowAnimationRunning
    /\ window.frames = {PlanView.flowAnimationId}

\* C27: after every PlanView.update on an initialised view, currentPattern
\* is getChannelPattern of the arguments just passed, the pattern label shows
\* that pattern, and lastQs, lastD50, lastQw and lastS each differ from the
\* argument by at most 1
C27_UpdateRemembers ==
    (ev.name \in UpdateEvents /\ PlanView.svg) =>
        /\ PlanView.currentPattern =
               getChannelPattern(state.Qs, state.D50, state.Qw, state.S,
                                 state.balanceRatio)
        /\ PlanView.patternLabel = PatternLabels[PlanView.currentPattern]
        /\ Abs(PlanView.lastQs - state.Qs) <= 1
        /\ Abs(PlanView.lastD50 - state.D50) <= 1
        /\ Abs(PlanView.lastQw - state.Qw) <= 1
        /\ Abs(PlanView.lastS - state.S) <= 1

\* an update that did not redraw: lastQs is not the argument
C27_Witness ==
    /\ ev.name = "input" /\ ~ev.redraw /\ PlanView.svg
    /\ state.Qs = 51 /\ PlanView.lastQs = 50

\* C28: after init and after every slider input and reset, balanceRatio is
\* calculateRatio of the state's parameters and previousState holds the
\* state's four parameters; and a reset ends with all four parameters at 50
\* and lastChanged null
C28_StateUpToDate ==
    /\ ev.name \in {"init", "input", "reset"} =>
           /\ state.balanceRatio =
                  calculateRatio(state.Qs, state.D50, state.Qw, state.S)
           /\ state.previousState = Params(state)
    /\ ev.name = "reset" =>
           /\ Params(state) = [Qs |-> 50, D50 |-> 50, Qw |-> 50, S |-> 50]
           /\ state.lastChanged = "null"

\* a slider has been moved away from the equilibrium
C28_Witness ==
    /\ ev.name = "input" /\ state.Qs = 100 /\ state.lastChanged = "Qs"
    /\ state.balanceRatio # RatioScale
    /\ state.previousState.Qs = 100

\* the seeds of the parameter sets that differ from <<qs, d50, qw, s>> in
\* one parameter, with a ratio of the given key
SeedsBeside(qs, d50, qw, s, key) ==
    {SeedOf(v, d50, qw, s, key) : v \in Domain \ {qs}}
    \cup {SeedOf(qs, v, qw, s, key) : v \in Domain \ {d50}}
    \cup {SeedOf(qs, d50, v, s, key) : v \in Domain \ {qw}}
    \cup {SeedOf(qs, d50, qw, v, key) : v \in Domain \ {s}}

\* the least and the greatest key
KeysTried == {0, 999}

\* C29: computeSeed gives the same seed for the same arguments, and two
\* different parameter sets of the slider domain never have the same seed,
\* whatever their ratios: the integer part of the seed is
\* ((Qs * 1000 + D50) * 1000 + Qw) * 1000 + S, and the ratio contributes a
\* fraction in [0, 1) only, that of a key in 0..999 divided by 1000
C29_SeedCollisionFree ==
    (op = "computeSeed" /\ InDomain) =>
        /\ ret = computeSeed(Qs, D50, Qw, S, ratio)
        /\ ret.hi = Qs * 1000 + D50 /\ ret.lo = Qw * 1000 + S
        /\ ret.frac \in 0..(FracScale - 1)
        /\ RatioKey(ratio) \in 0..999
        /\ ret.frac = DoubleFraction(ret.hi, ret.lo, RatioKey(ratio))
        /\ \A key \in KeysTried \cup {RatioKey(ratio)} :
               ret \notin SeedsBeside(Qs, D50, Qw, S, key)

\* a seed with the greatest key, 999, and parameters at the end of the
\* domain
C29_Witness ==
    /\ op = "computeSeed" /\ InDomain /\ ratio = Infinity
    /\ Qs = 100 /\ S = 100
    /\ ret.frac = DoubleFraction(ret.hi, ret.lo, 999)

\* every element has 0 <= offset < pathLength
InRange(flowElements) ==
    \A i \in DOMAIN flowElements :
        /\ 0 <= flowElements[i].offset
        /\ flowElements[i].offset < flowElements[i].pathLength

\* calls of updateFlowAnimation looked ahead from a draw
TicksAhead == 40

\* the elements after k calls of updateFlowAnimation
RECURSIVE Ticked(_, _)
Ticked(flowElements, k) ==
    IF k = 0 THEN flowElements ELSE Ticked(updateFlowAnimation(flowElements), k - 1)

\* the elements are in range now and after each of the next k calls of
\* updateFlowAnimation
RECURSIVE StaysInRange(_, _)
StaysInRange(flowElements, k) ==
    /\ InRange(flowElements)
    /\ k = 0 \/ StaysInRange(updateFlowAnimation(flowElements), k - 1)

\* the step has drawn the channel and its flow elements
JustDrawn == ev.name \in {"init", "handleResize"} \/ ev.redraw

\* a step that changes, of the page, the offset and the position of the flow
\* elements only (and, of the bookkeeping of the animation, the frame
\* requested and the count of the ticks), each offset being advanced by the
\* speed of the element and wrapped at its pathLength
TickOnly ==
    /\ DOMAIN PlanView.flowElements' = DOMAIN PlanView.flowElements
    /\ \A i \in DOMAIN PlanView.flowElements :
           LET d   == PlanView.flowElements[i]
               e   == PlanView.flowElements'[i]
               sum == d.offset + d.speed
           IN  /\ e.offset = IF sum < d.pathLength THEN sum ELSE sum - d.pathLength
               /\ e.at = getPointAtLength(d.pathNode, e.offset)
               /\ [e EXCEPT !.offset = d.offset, !.at = d.at] = d
    /\ [PlanView' EXCEPT !.flowElements = PlanView.flowElements,
                         !.flowAnimationId = PlanView.flowAnimationId,
                         !.flowTicks = PlanView.flowTicks] = PlanView
    /\ state' = state /\ ScaleView' = ScaleView

\* C30: every flow element has 0 <= offset < pathLength at all times: as
\* drawFlowElements and drawBraidedFlowElementsNew create it and after every
\* call of updateFlowAnimation, which advances each offset by the speed of
\* the element, wraps it at pathLength, and changes nothing but the offset
\* and the position of the elements
C30_OffsetsWithinPath ==
    /\ [](InRange(PlanView.flowElements))
    /\ [](JustDrawn => StaysInRange(PlanView.flowElements, TicksAhead))
    /\ [][ev'.tick => TickOnly]_vars

\* updateFlowAnimation has moved the elements of the main channel, the
\* first of them from 0 to its speed, and within TicksAhead calls one of
\* them passes the end of the path and is wrapped
C30_Witness ==
    /\ ev.tick /\ PlanView.flowTicks = 1
    /\ PlanView.flowElements[1].offset = PlanView.flowElements[1].speed
    /\ \E i \in DOMAIN PlanView.flowElements :
           Ticked(PlanView.flowElements, TicksAhead)[i].offset
               < PlanView.flowElements[i].offset

=============================================================================
